---------------------------- MODULE Spec2Model ----------------------------
(***************************************************************************)
(* Model of the plan-details rendering engine of terraform-mcp-server      *)
(* (pkg/tools/tfe/get_plan_details.go): the action classifier, the value   *)
(* formatter, the key-by-key tree differ, the per-record renderer and the  *)
(* summary tally.                                                          *)
(*                                                                         *)
(* Text is modelled by TLA+ strings (Len, \o and SubSeq act on them as on  *)
(* Go's byte strings for ASCII content).  A JSON value decoded into Go's   *)
(* interface{} is a record tagged by t:                                    *)
(*   [t |-> "null"]            nil                                         *)
(*   [t |-> "bool", b]         bool                                        *)
(*   [t |-> "num", i, f]       float64 with value i + f/10 (i >= 0 when    *)
(*                             f # 0)                                      *)
(*   [t |-> "str", s]          string                                      *)
(*   [t |-> "arr", a]          []interface{}, a sequence of values         *)
(*   [t |-> "map", m]          map[string]interface{}, a function from a   *)
(*                             finite set of strings to values             *)
(* A Go map has no iteration order: every `range` over a map is modelled   *)
(* as a nondeterministic choice of one ordering of its keys.               *)
(***************************************************************************)
EXTENDS Integers, Sequences, FiniteSets, TLC

-----------------------------------------------------------------------------
(* Program constants *)

\* formatValue: strings, joined arrays and serialized maps longer than this
\* are truncated or collapsed.
maxValueLen == 200

\* formatValue: arrays and maps at a depth greater than this are collapsed.
maxDepth == 2

\* buildAttributeDiff: const maxDiffSize.
maxDiffSize == 4000

-----------------------------------------------------------------------------
(* Text helpers: the Go string primitives the code relies on *)

\* strings.Repeat(c, n)
RECURSIVE Repeat(_, _)
Repeat(c, n) ==
    IF n <= 0 THEN ""
    ELSE LET half == Repeat(c, n \div 2)
         IN  IF n % 2 = 0 THEN half \o half ELSE half \o half \o c

\* strings.Join(items, sep)
RECURSIVE Join(_, _)
Join(items, sep) ==
    IF Len(items) = 0 THEN ""
    ELSE IF Len(items) = 1 THEN items[1]
    ELSE Join(SubSeq(items, 1, Len(items) - 1), sep) \o sep \o items[Len(items)]

\* s[:n] of Go, for n <= len(s)
Prefix(s, n) == SubSeq(s, 1, n)

\* The position of the one-character string c in the string run (0 when c
\* does not occur in it).
IndexIn(run, c) ==
    IF \E i \in 1..Len(run) : SubSeq(run, i, i) = c
    THEN CHOOSE i \in 1..Len(run) : SubSeq(run, i, i) = c
    ELSE 0

Digits == "0123456789"
Upper == "ABCDEFGHIJKLMNOPQRSTUVWXYZ"
Lower == "abcdefghijklmnopqrstuvwxyz"

\* The byte value of a one-character ASCII string of the model's alphabet.
CharCode(c) ==
    CASE IndexIn(Digits, c) > 0 -> 47 + IndexIn(Digits, c)
      [] IndexIn(Upper, c) > 0  -> 64 + IndexIn(Upper, c)
      [] IndexIn(Lower, c) > 0  -> 96 + IndexIn(Lower, c)
      [] c = " "  -> 32
      [] c = "\"" -> 34
      [] c = "-"  -> 45
      [] c = "<"  -> 60
      [] c = "_"  -> 95

Min(x, y) == IF x < y THEN x ELSE y

\* Go's s < t on strings: bytewise lexicographic comparison.
StringLess(s, t) ==
    \E i \in 1..(Min(Len(s), Len(t)) + 1) :
        /\ SubSeq(s, 1, i - 1) = SubSeq(t, 1, i - 1)
        /\ \/ i > Len(s) /\ i <= Len(t)
           \/ /\ i <= Len(s)
              /\ i <= Len(t)
              /\ CharCode(SubSeq(s, i, i)) < CharCode(SubSeq(t, i, i))

\* The escaping of fmt's %q (strconv.Quote) on the model's alphabet: the
\* double quote and the backslash are escaped, printable ASCII is kept.
RECURSIVE quoteEscape(_)
quoteEscape(s) ==
    IF Len(s) = 0 THEN ""
    ELSE IF Len(s) = 1
         THEN (IF s = "\"" THEN "\\\"" ELSE IF s = "\\" THEN "\\\\" ELSE s)
    ELSE quoteEscape(SubSeq(s, 1, Len(s) \div 2))
             \o quoteEscape(SubSeq(s, (Len(s) \div 2) + 1, Len(s)))

\* fmt.Sprintf("%q", s)
Quote(s) == "\"" \o quoteEscape(s) \o "\""

\* The escaping of encoding/json for string content on the model's
\* alphabet: quote and backslash are escaped, and so are the HTML
\* characters (json.Marshal escapes <, > and & by default).
RECURSIVE jsonEscape(_)
jsonEscape(s) ==
    IF Len(s) = 0 THEN ""
    ELSE IF Len(s) = 1
         THEN (IF s = "\"" THEN "\\\""
               ELSE IF s = "\\" THEN "\\\\"
               ELSE IF s = "<" THEN "\\u003c"
               ELSE s)
    ELSE jsonEscape(SubSeq(s, 1, Len(s) \div 2))
             \o jsonEscape(SubSeq(s, (Len(s) \div 2) + 1, Len(s)))

jsonString(s) == "\"" \o jsonEscape(s) \o "\""

-----------------------------------------------------------------------------
(* Value model *)

Null == [t |-> "null"]
Bool(b) == [t |-> "bool", b |-> b]
Num(i) == [t |-> "num", i |-> i, f |-> 0]
Frac(i, f) == [t |-> "num", i |-> i, f |-> f]
Str(s) == [t |-> "str", s |-> s]
Arr(a) == [t |-> "arr", a |-> a]
Map(m) == [t |-> "map", m |-> m]

\* v.(map[string]interface{}) succeeds
IsMap(v) == v.t = "map"

EmptyMap == [k \in {} |-> Null]

-----------------------------------------------------------------------------
(* Key ordering *)

\* All orderings of a finite set of keys: the iteration orders a `range`
\* over a Go map with these keys can produce.
Orders(S) ==
    { o \in [1..Cardinality(S) -> S] : \A i, j \in DOMAIN o : i # j => o[i] # o[j] }

\* The inner loop of sortStrings: s[j] sinks while it is smaller than its
\* left neighbour.
RECURSIVE sink(_, _)
sink(s, j) ==
    IF j > 1 /\ StringLess(s[j], s[j - 1])
    THEN sink([s EXCEPT ![j] = s[j - 1], ![j - 1] = s[j]], j - 1)
    ELSE s

\* The outer loop of sortStrings, from index i (1-based) on.
RECURSIVE sortFrom(_, _)
sortFrom(s, i) == IF i > Len(s) THEN s ELSE sortFrom(sink(s, i), i + 1)

\* sortStrings with its outer loop starting one element late.
sortStrings_LateStart(s) == sortFrom(s, 3)

\* sortStrings: in-place insertion sort.
sortStrings(s) == sortFrom(s, 2)

\* The append loop of mergeKeys over one map, iterated in order o.
RECURSIVE appendUnseen(_, _)
appendUnseen(keys, o) ==
    IF Len(o) = 0 THEN keys
    ELSE appendUnseen(
             IF \E i \in DOMAIN keys : keys[i] = Head(o) THEN keys ELSE Append(keys, Head(o)),
             Tail(o))

\* The keys mergeKeys has collected before sorting, when map a is iterated
\* in order oa and map b in order ob.
collectKeys(oa, ob) == appendUnseen(appendUnseen(<<>>, oa), ob)

\* mergeKeys(a, b), for the iteration orders oa of a and ob of b.
mergeKeys(oa, ob) == sortStrings(collectKeys(oa, ob))

-----------------------------------------------------------------------------
(* json.Marshal, as valuesEqual and formatValue use it *)

\* encoding/json writes the keys of a map in sorted order.
sortedKeys(S) == sortStrings(CHOOSE o \in Orders(S) : TRUE)

\* strconv formatting of a float64 in the model's number domain.
formatFloat(v) ==
    IF v.f = 0 THEN ToString(v.i) ELSE ToString(v.i) \o "." \o ToString(v.f)

RECURSIVE jsonMarshal(_)
jsonMarshal(v) ==
    CASE v.t = "null" -> "null"
      [] v.t = "bool" -> (IF v.b THEN "true" ELSE "false")
      [] v.t = "num"  -> formatFloat(v)
      [] v.t = "str"  -> jsonString(v.s)
      [] v.t = "arr"  ->
            "[" \o Join([i \in DOMAIN v.a |-> jsonMarshal(v.a[i])], ",") \o "]"
      [] v.t = "map"  ->
            LET ks == sortedKeys(DOMAIN v.m)
            IN  "{" \o Join([i \in DOMAIN ks |->
                               jsonString(ks[i]) \o ":" \o jsonMarshal(v.m[ks[i]])], ",")
                    \o "}"

-----------------------------------------------------------------------------
(* formatValue *)

\* formatString truncating a string of exactly maxValueLen characters too.
formatString_AtLimit(s) ==
    IF Len(s) >= maxValueLen
    THEN Quote(Prefix(s, maxValueLen)) \o "... (truncated)"
    ELSE Quote(s)

\* formatValue, case string
formatString(s) ==
    IF Len(s) > maxValueLen
    THEN Quote(Prefix(s, maxValueLen)) \o "... (truncated)"
    ELSE Quote(s)

\* formatValue, case float64
formatNumber(v) ==
    IF v.f = 0 THEN ToString(v.i) ELSE formatFloat(v)

\* formatMap collapsing one level early.
formatMap_EarlyCollapse(v, depth) ==
    IF Cardinality(DOMAIN v.m) = 0 THEN "{}"
    ELSE IF depth >= maxDepth
         THEN "{..." \o ToString(Cardinality(DOMAIN v.m)) \o " keys}"
    ELSE LET s == jsonMarshal(v)
         IN  IF Len(s) > maxValueLen
             THEN "{..." \o ToString(Cardinality(DOMAIN v.m)) \o " keys}"
             ELSE s

\* formatValue, case map[string]interface{}
formatMap(v, depth) ==
    IF Cardinality(DOMAIN v.m) = 0 THEN "{}"
    ELSE IF depth > maxDepth
         THEN "{..." \o ToString(Cardinality(DOMAIN v.m)) \o " keys}"
    ELSE LET s == jsonMarshal(v)
         IN  IF Len(s) > maxValueLen
             THEN "{..." \o ToString(Cardinality(DOMAIN v.m)) \o " keys}"
             ELSE s

\* formatValue returning no text, instead of collapsing, when it is called
\* deeper than its depth limit allows a nested call to be.
RECURSIVE formatValue_DepthFailure(_, _)
formatValue_DepthFailure(val, depth) ==
    IF depth > maxDepth + 1 THEN ""
    ELSE
    CASE val.t = "null" -> "null"
      [] val.t = "str"  -> formatString(val.s)
      [] val.t = "num"  -> formatNumber(val)
      [] val.t = "bool" -> (IF val.b THEN "true" ELSE "false")
      [] val.t = "arr"  ->
            IF Len(val.a) = 0 THEN "[]"
            ELSE IF depth > maxDepth
                 THEN "[..." \o ToString(Len(val.a)) \o " items]"
            ELSE LET items == [i \in DOMAIN val.a |->
                                 formatValue_DepthFailure(val.a[i], depth + 1)]
                     joined == Join(items, ", ")
                 IN  IF Len(joined) > maxValueLen
                     THEN "[..." \o ToString(Len(val.a)) \o " items]"
                     ELSE "[" \o joined \o "]"
      [] val.t = "map"  -> formatMap(val, depth)

\* formatValue collapsing an array whose joined items are exactly
\* maxValueLen characters long too.
RECURSIVE formatValue_CollapseAtLimit(_, _)
formatValue_CollapseAtLimit(val, depth) ==
    CASE val.t = "null" -> "null"
      [] val.t = "str"  -> formatString(val.s)
      [] val.t = "num"  -> formatNumber(val)
      [] val.t = "bool" -> (IF val.b THEN "true" ELSE "false")
      [] val.t = "arr"  ->
            IF Len(val.a) = 0 THEN "[]"
            ELSE IF depth > maxDepth
                 THEN "[..." \o ToString(Len(val.a)) \o " items]"
            ELSE LET items == [i \in DOMAIN val.a |->
                                 formatValue_CollapseAtLimit(val.a[i], depth + 1)]
                     joined == Join(items, ", ")
                 IN  IF Len(joined) >= maxValueLen
                     THEN "[..." \o ToString(Len(val.a)) \o " items]"
                     ELSE "[" \o joined \o "]"
      [] val.t = "map"  -> formatMap(val, depth)

\* formatValue.  Its nil test is the "null" case; its default case (%v) is
\* not reachable for a value decoded from JSON, which has one of the six
\* shapes below.
RECURSIVE formatValue(_, _)
formatValue(val, depth) ==
    CASE val.t = "null" -> "null"
      [] val.t = "str"  -> formatString(val.s)
      [] val.t = "num"  -> formatNumber(val)
      [] val.t = "bool" -> (IF val.b THEN "true" ELSE "false")
      [] val.t = "arr"  ->
            IF Len(val.a) = 0 THEN "[]"
            ELSE IF depth > maxDepth
                 THEN "[..." \o ToString(Len(val.a)) \o " items]"
            ELSE LET items == [i \in DOMAIN val.a |-> formatValue(val.a[i], depth + 1)]
                     joined == Join(items, ", ")
                 IN  IF Len(joined) > maxValueLen
                     THEN "[..." \o ToString(Len(val.a)) \o " items]"
                     ELSE "[" \o joined \o "]"
      [] val.t = "map"  -> formatMap(val, depth)

-----------------------------------------------------------------------------
(* valuesEqual and the tree differ *)

\* valuesEqual comparing the rendered texts of the two values instead of
\* their serializations.
valuesEqual_Rendered(a, b) == formatValue(a, 1) = formatValue(b, 1)

\* valuesEqual: equality of the two json.Marshal outputs (json.Marshal
\* cannot fail on a JSON-decoded value).
valuesEqual(a, b) == jsonMarshal(a) = jsonMarshal(b)

\* A written line: the key it is about, its symbol and its full text.
Line(sym, key, text) == [sym |-> sym, key |-> key, text |-> text]

\* diffKey without the valuesEqual test: a key of both maps always gets a
\* '~' line.
diffKey_NoEqualTest(before, after, key, depth) ==
    LET indent  == Repeat("  ", depth)
        bExists == key \in DOMAIN before
        aExists == key \in DOMAIN after
    IN  IF ~bExists /\ aExists
        THEN << Line("+", key, "+ " \o indent \o key \o " = "
                       \o formatValue(after[key], depth + 1) \o "\n") >>
        ELSE IF bExists /\ ~aExists
        THEN << Line("-", key, "- " \o indent \o key \o " = "
                       \o formatValue(before[key], depth + 1) \o "\n") >>
        ELSE << Line("~", key, "~ " \o indent \o key \o " = "
                       \o formatValue(before[key], depth + 1) \o " -> "
                       \o formatValue(after[key], depth + 1) \o "\n") >>

\* The body of writeDiff's loop for one key: the lines it writes (none or
\* one).  before and after are the Go maps (functions).
diffKey(before, after, key, depth) ==
    LET indent  == Repeat("  ", depth)
        bExists == key \in DOMAIN before
        aExists == key \in DOMAIN after
    IN  IF ~bExists /\ aExists
        THEN << Line("+", key, "+ " \o indent \o key \o " = "
                       \o formatValue(after[key], depth + 1) \o "\n") >>
        ELSE IF bExists /\ ~aExists
        THEN << Line("-", key, "- " \o indent \o key \o " = "
                       \o formatValue(before[key], depth + 1) \o "\n") >>
        ELSE IF bExists /\ aExists /\ ~valuesEqual(before[key], after[key])
        THEN << Line("~", key, "~ " \o indent \o key \o " = "
                       \o formatValue(before[key], depth + 1) \o " -> "
                       \o formatValue(after[key], depth + 1) \o "\n") >>
        ELSE << >>

\* writeDiff's loop over allKeys.
RECURSIVE diffLoop(_, _, _, _)
diffLoop(before, after, allKeys, depth) ==
    IF Len(allKeys) = 0 THEN << >>
    ELSE diffKey(before, after, Head(allKeys), depth)
             \o diffLoop(before, after, Tail(allKeys), depth)

\* writeDiff(sb, before, after, depth): the lines written, when mergeKeys
\* iterates before in order ob and after in order oa.
writeDiff(before, after, depth, ob, oa) ==
    diffLoop(before, after, mergeKeys(ob, oa), depth)

\* writeMapValues(sb, m, prefix, depth): the lines written, when the range
\* over m yields its keys in order o.
writeMapValues(m, prefix, depth, o) ==
    [i \in DOMAIN o |->
        Line(SubSeq(prefix, 1, 1), o[i],
             prefix \o Repeat("  ", depth) \o o[i] \o " = "
                 \o formatValue(m[o[i]], depth + 1) \o "\n")]

\* The content of a strings.Builder after these lines were written to it.
builderText(lines) == Join([i \in DOMAIN lines |-> lines[i].text], "")

-----------------------------------------------------------------------------
(* Action classifier *)

\* summarizeActions with the results of the two replace pairs exchanged.
summarizeActions_Swapped(actions) ==
    IF Len(actions) = 1
          /\ actions[1] \in {"create", "delete", "update", "read", "no-op"}
    THEN actions[1]
    ELSE IF Len(actions) = 2 /\ actions[1] = "delete" /\ actions[2] = "create"
    THEN "replace (create, delete)"
    ELSE IF Len(actions) = 2 /\ actions[1] = "create" /\ actions[2] = "delete"
    THEN "replace (delete, create)"
    ELSE Join(actions, ", ")

\* summarizeActions joining the fallback with a bare comma.
summarizeActions_BareComma(actions) ==
    IF Len(actions) = 1
          /\ actions[1] \in {"create", "delete", "update", "read", "no-op"}
    THEN actions[1]
    ELSE IF Len(actions) = 2 /\ actions[1] = "delete" /\ actions[2] = "create"
    THEN "replace (delete, create)"
    ELSE IF Len(actions) = 2 /\ actions[1] = "create" /\ actions[2] = "delete"
    THEN "replace (create, delete)"
    ELSE Join(actions, ",")

\* summarizeActions
summarizeActions(actions) ==
    IF Len(actions) = 1
          /\ actions[1] \in {"create", "delete", "update", "read", "no-op"}
    THEN actions[1]
    ELSE IF Len(actions) = 2 /\ actions[1] = "delete" /\ actions[2] = "create"
    THEN "replace (delete, create)"
    ELSE IF Len(actions) = 2 /\ actions[1] = "create" /\ actions[2] = "delete"
    THEN "replace (create, delete)"
    ELSE Join(actions, ", ")

\* actionSymbol without its "read" case.
actionSymbol_NoRead(action) ==
    CASE action = "create" -> "+"
      [] action = "delete" -> "-"
      [] action = "update" -> "~"
      [] action \in {"replace (delete, create)", "replace (create, delete)"} -> "-/+"
      [] OTHER -> " "

\* actionSymbol
actionSymbol(action) ==
    CASE action = "create" -> "+"
      [] action = "delete" -> "-"
      [] action = "update" -> "~"
      [] action \in {"replace (delete, create)", "replace (create, delete)"} -> "-/+"
      [] action = "read" -> "<="
      [] OTHER -> " "

\* formatActionReason replacing a code it does not know.
formatActionReason_Unknown(reason) ==
    CASE reason = "replace_because_tainted" -> "resource is tainted, so must be replaced"
      [] reason = "replace_because_cannot_update" -> "provider requires replacement to apply changes"
      [] reason = "replace_by_request" -> "replacement was requested"
      [] reason = "delete_because_no_resource_config" -> "no resource configuration found"
      [] reason = "delete_because_no_module" -> "module instance no longer declared"
      [] reason = "delete_because_wrong_repetition" -> "instance key not compatible with repetition mode"
      [] reason = "delete_because_count_index" -> "count index out of range"
      [] reason = "delete_because_each_key" -> "for_each key not in current configuration"
      [] reason = "read_because_config_unknown" -> "configuration values unknown until apply"
      [] reason = "read_because_dependency_pending" -> "depends on resource with pending changes"
      [] OTHER -> "unknown reason"

\* formatActionReason
formatActionReason(reason) ==
    CASE reason = "replace_because_tainted" -> "resource is tainted, so must be replaced"
      [] reason = "replace_because_cannot_update" -> "provider requires replacement to apply changes"
      [] reason = "replace_by_request" -> "replacement was requested"
      [] reason = "delete_because_no_resource_config" -> "no resource configuration found"
      [] reason = "delete_because_no_module" -> "module instance no longer declared"
      [] reason = "delete_because_wrong_repetition" -> "instance key not compatible with repetition mode"
      [] reason = "delete_because_count_index" -> "count index out of range"
      [] reason = "delete_because_each_key" -> "for_each key not in current configuration"
      [] reason = "read_because_config_unknown" -> "configuration values unknown until apply"
      [] reason = "read_because_dependency_pending" -> "depends on resource with pending changes"
      [] OTHER -> reason

-----------------------------------------------------------------------------
(* Diff renderer *)

\* The iteration orders a range over value v can take when v is a map (a
\* value that is not a map is never ranged over).
KeyOrders(v) == IF IsMap(v) THEN Orders(DOMAIN v.m) ELSE { << >> }

\* dispatchDiff diffing an update as soon as one side is a map (the other
\* side then being the nil map).
dispatchDiff_EitherMap(before, after, action, ob, oa) ==
    CASE action = "create" ->
            (IF IsMap(after) THEN writeMapValues(after.m, "+ ", 0, oa) ELSE << >>)
      [] action = "delete" ->
            (IF IsMap(before) THEN writeMapValues(before.m, "- ", 0, ob) ELSE << >>)
      [] action \in {"update", "replace (delete, create)", "replace (create, delete)"} ->
            (IF IsMap(before) \/ IsMap(after)
             THEN writeDiff(IF IsMap(before) THEN before.m ELSE EmptyMap,
                            IF IsMap(after) THEN after.m ELSE EmptyMap, 0, ob, oa)
             ELSE << >>)
      [] OTHER -> << >>

\* The switch of buildAttributeDiff: the lines written to its builder,
\* when a range over before yields order ob and one over after order oa.
dispatchDiff(before, after, action, ob, oa) ==
    CASE action = "create" ->
            (IF IsMap(after) THEN writeMapValues(after.m, "+ ", 0, oa) ELSE << >>)
      [] action = "delete" ->
            (IF IsMap(before) THEN writeMapValues(before.m, "- ", 0, ob) ELSE << >>)
      [] action \in {"update", "replace (delete, create)", "replace (create, delete)"} ->
            (IF IsMap(before) /\ IsMap(after)
             THEN writeDiff(before.m, after.m, 0, ob, oa)
             ELSE << >>)
      [] OTHER -> << >>

truncationMarker == "\n... (diff truncated, too many changes to display)\n"

\* truncateDiff cutting a body of exactly maxDiffSize characters too.
truncateDiff_AtLimit(result) ==
    IF Len(result) >= maxDiffSize
    THEN Prefix(result, maxDiffSize) \o truncationMarker
    ELSE result

\* The tail of buildAttributeDiff: the cap on the composed body.
truncateDiff(result) ==
    IF Len(result) > maxDiffSize
    THEN Prefix(result, maxDiffSize) \o truncationMarker
    ELSE result

\* buildAttributeDiff(before, after, action)
buildAttributeDiff(before, after, action, ob, oa) ==
    truncateDiff(builderText(dispatchDiff(before, after, action, ob, oa)))

\* The Markdown code fence, three backquotes.  A TLA+ string cannot hold a
\* backquote: an apostrophe stands for each, which keeps every length.
Fence == "'''"

\* The fenced block writeResourceChange writes for a diff (or the blank
\* line it writes when there is none).
diffBlock(diff) ==
    IF diff # "" THEN "\n" \o Fence \o "diff\n" \o diff \o Fence \o "\n\n" ELSE "\n"

\* The header and the optional reason line of writeResourceChange.
changeHeader(rc) ==
    LET action == summarizeActions(rc.actions)
    IN  "### " \o actionSymbol(action) \o " " \o rc.address \o " (" \o action \o ")\n"
            \o (IF rc.reason # ""
                THEN "  *Reason: " \o formatActionReason(rc.reason) \o "*\n"
                ELSE "")

\* writeResourceChange(sb, rc): the text appended to sb.
writeResourceChange(rc, ob, oa) ==
    changeHeader(rc)
        \o diffBlock(buildAttributeDiff(rc.before, rc.after,
                                        summarizeActions(rc.actions), ob, oa))

-----------------------------------------------------------------------------
(* Summary tally *)

ZeroCounts == [adds |-> 0, updates |-> 0, destroys |-> 0, replaces |-> 0, noops |-> 0]

\* tally without "read" in its last case.
tally_ReadUncounted(c, action) ==
    CASE action = "create" -> [c EXCEPT !.adds = @ + 1]
      [] action = "update" -> [c EXCEPT !.updates = @ + 1]
      [] action = "delete" -> [c EXCEPT !.destroys = @ + 1]
      [] action \in {"replace (delete, create)", "replace (create, delete)"} ->
            [c EXCEPT !.replaces = @ + 1]
      [] action = "no-op" -> [c EXCEPT !.noops = @ + 1]
      [] OTHER -> c

\* The switch of countActions for one classified action.
tally(c, action) ==
    CASE action = "create" -> [c EXCEPT !.adds = @ + 1]
      [] action = "update" -> [c EXCEPT !.updates = @ + 1]
      [] action = "delete" -> [c EXCEPT !.destroys = @ + 1]
      [] action \in {"replace (delete, create)", "replace (create, delete)"} ->
            [c EXCEPT !.replaces = @ + 1]
      [] action \in {"no-op", "read"} -> [c EXCEPT !.noops = @ + 1]
      [] OTHER -> c

\* The loop of countActions from record i on, with counts c so far.
RECURSIVE countFrom(_, _, _)
countFrom(changes, i, c) ==
    IF i > Len(changes) THEN c
    ELSE countFrom(changes, i + 1, tally(c, summarizeActions(changes[i].actions)))

\* countActions(changes)
countActions(changes) == countFrom(changes, 1, ZeroCounts)

-----------------------------------------------------------------------------
(* buildFormattedPlanResponse *)

\* fmt's %t
boolText(b) == IF b THEN "true" ELSE "false"

\* The title and metadata lines of the formatted response.
planHeader(run, plan, parsed) ==
    "# Plan Details for Run " \o run.ID \o "\n\n"
        \o "**Plan ID:** " \o plan.ID \o "\n"
        \o "**Plan Status:** " \o plan.Status \o "\n"
        \o "**Run Status:** " \o run.Status \o "\n"
        \o (IF parsed.TerraformVersion # ""
            THEN "**Terraform Version:** " \o parsed.TerraformVersion \o "\n" ELSE "")
        \o "**Applyable:** " \o boolText(parsed.Applyable) \o "\n"
        \o (IF parsed.Errored THEN "**Errored:** true\n" ELSE "")

\* The summary line written from the five counts c.
summaryLine(c) ==
    "\n## Summary: " \o ToString(c.adds) \o " to add, " \o ToString(c.updates)
        \o " to change, " \o ToString(c.destroys) \o " to destroy"
        \o (IF c.replaces > 0 THEN ", " \o ToString(c.replaces) \o " to replace" ELSE "")
        \o "\n"

\* writeResourceChange on each record of recs in turn; obs[i] and oas[i] are
\* the orders the ranges over record i's maps take.
writeAll(recs, obs, oas) ==
    Join([i \in DOMAIN recs |-> writeResourceChange(recs[i], obs[i], oas[i])], "")

\* The iteration orders for the before (or after) maps of the records recs.
OrdersOf(recs, side) ==
    LET map(i) == IF side = "before" THEN recs[i].before ELSE recs[i].after
    IN  { f \in [DOMAIN recs -> UNION { KeyOrders(map(i)) : i \in DOMAIN recs }] :
            \A i \in DOMAIN recs : f[i] \in KeyOrders(map(i)) }

\* The resource drift section.
driftSection(drift, obs, oas) ==
    IF Len(drift) > 0
    THEN "\n## Resource Drift (" \o ToString(Len(drift)) \o " detected)\n\n"
             \o "Changes detected outside of Terraform:\n\n"
             \o writeAll(drift, obs, oas)
    ELSE ""

\* actualChanges keeping the records classified "read".
actualChanges_KeepRead(changes) ==
    LET Actual(rc) == summarizeActions(rc.actions) # "no-op"
    IN  SelectSeq(changes, Actual)

\* actualChanges: the records that are neither "no-op" nor "read".
actualChanges(changes) ==
    LET Actual(rc) == summarizeActions(rc.actions) # "no-op"
                          /\ summarizeActions(rc.actions) # "read"
    IN  SelectSeq(changes, Actual)

\* The resource changes section; noops is countActions' fifth result.
changesSection(changes, noops, obs, oas) ==
    IF Len(changes) > 0
    THEN (IF Len(actualChanges(changes)) > 0
          THEN "\n## Resource Changes (" \o ToString(Len(actualChanges(changes)))
                   \o ")\n\n" \o writeAll(actualChanges(changes), obs, oas)
          ELSE "")
         \o (IF noops > 0
             THEN "\n*(" \o ToString(noops) \o " resources unchanged, not shown)*\n"
             ELSE "")
    ELSE "\n## Resource Changes\n\nNo resource changes planned.\n"

\* The output changes section; oo is the order the range over the map of
\* outputs takes.
outputSection(outputs, oo) ==
    IF Cardinality(DOMAIN outputs) > 0
    THEN "\n## Output Changes (" \o ToString(Cardinality(DOMAIN outputs)) \o ")\n\n"
             \o Join([i \in DOMAIN oo |->
                        "- **" \o oo[i] \o "** (" \o summarizeActions(outputs[oo[i]])
                            \o ")\n"], "")
    ELSE ""

\* buildFormattedPlanResponse: the text of the result.  ord holds the
\* orders of the ranges over maps: of the drift records' maps (db, da), of
\* the actual changes' maps (cb, ca) and of the outputs (oo).
buildFormattedPlanResponse(run, plan, parsed, ord) ==
    planHeader(run, plan, parsed)
        \o summaryLine(countActions(parsed.ResourceChanges))
        \o driftSection(parsed.ResourceDrift, ord.db, ord.da)
        \o changesSection(parsed.ResourceChanges,
                          countActions(parsed.ResourceChanges).noops, ord.cb, ord.ca)
        \o outputSection(parsed.OutputChanges, ord.oo)

-----------------------------------------------------------------------------
(* getPlanDetailsHandler and buildPlanMetadataResponse *)

maxLogSize == 50000

\* The result of `return ToolError(...)` / `return ToolErrorf(...)`.
errorResult(message) ==
    [isError |-> TRUE, kind |-> "error", text |-> message, log |-> ""]

\* mcp.NewToolResultText(text); kind and log record which builder made the
\* text and the log content it wrote.
textResult(kind, text, log) ==
    [isError |-> FALSE, kind |-> kind, text |-> text, log |-> log]

\* The title and metadata lines of the metadata response.
planMetadata(run, plan) ==
    "# Plan Details for Run " \o run.ID \o "\n\n"
        \o "**Plan ID:** " \o plan.ID \o "\n"
        \o "**Plan Status:** " \o plan.Status \o "\n"
        \o "**Run Status:** " \o run.Status \o "\n"
        \o "**Has Changes:** " \o boolText(plan.HasChanges) \o "\n"
        \o "**Resource Additions:** " \o ToString(plan.ResourceAdditions) \o "\n"
        \o "**Resource Changes:** " \o ToString(plan.ResourceChanges) \o "\n"
        \o "**Resource Destructions:** " \o ToString(plan.ResourceDestructions) \o "\n"
        \o "**Resource Imports:** " \o ToString(plan.ResourceImports) \o "\n"

\* keepTail keeping the first maxLogSize bytes of a long log.
keepTail_Head(logContent) ==
    IF Len(logContent) > maxLogSize
    THEN SubSeq(logContent, 1, maxLogSize)
    ELSE logContent

\* The truncation of a long log to its last maxLogSize bytes.
keepTail(logContent) ==
    IF Len(logContent) > maxLogSize
    THEN SubSeq(logContent, Len(logContent) - maxLogSize + 1, Len(logContent))
    ELSE logContent

\* The plan logs section written for a log that was read; apostrophes stand
\* for the backquotes of the fence.
logsSection(status, logContent) ==
    IF logContent # ""
    THEN "\n## Plan Logs\n\n"
             \o (IF Len(logContent) > maxLogSize
                 THEN "*(Log output truncated -- showing last portion which typically contains errors)*\n\n"
                 ELSE "")
             \o Fence \o "\n" \o keepTail(logContent)
             \o (IF SubSeq(logContent, Len(logContent), Len(logContent)) # "\n"
                 THEN "\n" ELSE "")
             \o Fence \o "\n"
    ELSE IF status = "errored"
         THEN "\n> **Note:** The plan errored but no log output is available.\n"
         ELSE ""

\* buildPlanMetadataResponse: its result, and whether it called Plans.Logs.
\* logs is what the remote API answers to Plans.Logs and to the read of
\* the log stream.
buildPlanMetadataResponse(run, plan, logs) ==
    IF plan.Status \in { "pending", "queued", "unreachable" }
    THEN [result |-> textResult("metadata",
                        planMetadata(run, plan)
                            \o "\n> **Note:** Detailed resource changes are not yet available because the plan status is '"
                            \o plan.Status \o "'. "
                            \o "Re-run this tool after the plan has finished to see the full execution plan.\n",
                        ""),
          logs |-> 0]
    ELSE IF logs.fetchErr
    THEN [result |-> textResult("metadata",
                        planMetadata(run, plan)
                            \o (IF plan.Status = "errored"
                                THEN "\n> **Note:** The plan errored but logs could not be retrieved.\n"
                                ELSE ""),
                        ""),
          logs |-> 1]
    ELSE IF logs.readErr
    THEN [result |-> textResult("metadata", planMetadata(run, plan), ""), logs |-> 1]
    ELSE [result |-> textResult("metadata",
                        planMetadata(run, plan) \o logsSection(plan.Status, logs.content),
                        keepTail(logs.content)),
          logs |-> 1]

\* getPlanDetailsHandler: its result and the calls it issued to the remote
\* API.  api holds what the environment answers: whether the client can be
\* obtained, and the answers to Runs.ReadWithOptions, Plans.ReadJSONOutput
\* and Plans.Logs.  A JSON payload is empty, or bytes json.Unmarshal
\* rejects, or bytes it decodes to the plan `parsed`.
getPlanDetailsHandler(args, api, ord) ==
    LET none == [runs |-> 0, json |-> 0, logs |-> 0]
    IN  IF ~args.hasRunID
        THEN [result |-> errorResult("missing required input: run_id"), remote |-> none]
        ELSE IF api.clientErr
        THEN [result |-> errorResult("failed to get Terraform client"), remote |-> none]
        ELSE IF api.runErr
        THEN [result |-> errorResult("run not found: " \o args.runID),
              remote |-> [none EXCEPT !.runs = 1]]
        ELSE IF ~api.hasPlan
        THEN [result |-> errorResult("no plan associated with run: " \o args.runID),
              remote |-> [none EXCEPT !.runs = 1]]
        ELSE IF api.json.kind \in { "error", "empty", "garbage" }
        THEN LET meta == buildPlanMetadataResponse(api.run, api.plan, api.logs)
             IN  [result |-> meta.result,
                  remote |-> [runs |-> 1, json |-> 1, logs |-> meta.logs]]
        ELSE [result |-> textResult("formatted",
                            buildFormattedPlanResponse(api.run, api.plan, api.json.parsed, ord),
                            ""),
              remote |-> [runs |-> 1, json |-> 1, logs |-> 0]]

-----------------------------------------------------------------------------
(* createWorkspaceHandler *)

\* strings.ToLower on ASCII text
RECURSIVE toLower(_)
toLower(s) ==
    IF Len(s) = 0 THEN ""
    ELSE LET c == SubSeq(s, 1, 1)
             i == IndexIn(Upper, c)
         IN  (IF i > 0 THEN SubSeq(Lower, i, i) ELSE c) \o toLower(SubSeq(s, 2, Len(s)))

\* strings.TrimSpace on text whose only white space is the space character
RECURSIVE trimSpace(_)
trimSpace(s) ==
    IF Len(s) > 0 /\ SubSeq(s, 1, 1) = " " THEN trimSpace(SubSeq(s, 2, Len(s)))
    ELSE IF Len(s) > 0 /\ SubSeq(s, Len(s), Len(s)) = " "
         THEN trimSpace(SubSeq(s, 1, Len(s) - 1))
    ELSE s

\* strings.Split(s, ",")
RECURSIVE splitComma(_, _)
splitComma(s, part) ==
    IF Len(s) = 0 THEN << part >>
    ELSE IF SubSeq(s, 1, 1) = ","
         THEN << part >> \o splitComma(SubSeq(s, 2, Len(s)), "")
    ELSE splitComma(SubSeq(s, 2, Len(s)), part \o SubSeq(s, 1, 1))

\* The tags parsed from the tags parameter: trimmed, empty names dropped.
parseTags(tagsStr) ==
    IF tagsStr = "" THEN << >>
    ELSE LET names == splitComma(trimSpace(tagsStr), "")
             trimmed == [i \in DOMAIN names |-> trimSpace(names[i])]
             Named(n) == n # ""
         IN  SelectSeq(trimmed, Named)

\* The required names and the execution mode: the message of the error
\* the handler returns at them, or "" when it goes on.
checkInputs(args) ==
    IF ~args.org.present THEN "missing required input: terraform_org_name"
    ELSE IF ~args.name.present THEN "missing required input: workspace_name"
    ELSE IF toLower(args.executionMode) \notin { "local", "agent", "remote", "" }
         THEN "invalid execution_mode '" \o args.executionMode
                  \o "' - must be 'remote', 'local', or 'agent'"
    ELSE ""

\* checkVcs accepting a repository without an OAuth token.
checkVcs_Unchecked(args) == ""

\* The VCS check: the message of the error it returns, or "".
checkVcs(args) ==
    IF args.vcsRepoIdentifier # "" /\ args.vcsRepoOAuthTokenID = ""
    THEN "vcs_repo_oauth_token_id is required when vcs_repo_identifier is provided"
    ELSE ""

\* The tfe.WorkspaceCreateOptions the handler builds; a field that is not
\* set holds "".
workspaceCreateOptions(args) ==
    [Name |-> trimSpace(args.name.value),
     AutoApply |-> toLower(args.autoApply) = "true",
     Tags |-> parseTags(args.tags),
     SourceName |-> "terraform-mcp-server",
     Description |-> args.description,
     TerraformVersion |-> args.terraformVersion,
     WorkingDirectory |-> args.workingDirectory,
     Project |-> args.projectID,
     ExecutionMode |-> IF args.executionMode # "" THEN toLower(args.executionMode) ELSE "",
     VCSRepo |-> IF args.vcsRepoIdentifier # ""
                 THEN [Identifier |-> args.vcsRepoIdentifier,
                       OAuthTokenID |-> args.vcsRepoOAuthTokenID,
                       Branch |-> args.vcsRepoBranch]
                 ELSE [Identifier |-> "", OAuthTokenID |-> "", Branch |-> ""]]

-----------------------------------------------------------------------------
(* Bounds of the explored inputs *)

\* Longest action sequence given to summarizeActions.
MaxActions == 3

\* Longest batch of records given to countActions.
MaxBatch == 3

\* How many times one record is rendered.
MaxCalls == 2

\* How many renders of the records of one plan are followed.
MaxRenders == 3

\* Plan logs are up to LogMargin bytes shorter or longer than maxLogSize.
LogMargin == 1

\* Deepest depth argument formatValue is called with.
MaxCallDepth == 4

\* Deepest depth argument writeDiff is called with.
MaxDiffDepth == 2

\* Strings have lengths up to this far on either side of maxValueLen.
StrMargin == 9

\* Long keys have lengths from maxDiffSize - CapMargin to maxDiffSize.
CapMargin == 10

-----------------------------------------------------------------------------
(* Inputs *)

KnownTags == {"create", "delete", "update", "read", "no-op"}

\* The action tags of the plan format, and one this code does not know.
Tags == KnownTags \cup {"forget"}

ActionSeqs == UNION { [1..n -> Tags] : n \in 0..MaxActions }

\* Scalars, among them a string with characters that %q and JSON escape
\* differently and the string "z" that occurs nowhere else.
Scalars ==
    { Null, Bool(TRUE), Num(1), Frac(1, 5), Str("a"), Str("a\"<"), Str("z") }

LongStrings ==
    { Str(Repeat("a", n)) : n \in (maxValueLen - StrMargin)..(maxValueLen + StrMargin) }
        \cup { Str(Repeat("\"", n)) : n \in (maxValueLen - 1)..(maxValueLen + 1) }

Leaves == Scalars \cup LongStrings

\* One more container around each value of S.
Wrap(S) == { Arr(<< x >>) : x \in S } \cup { Map("a" :> x) : x \in S }

DeepSeeds == { Num(1), Str("z"), Map(("a" :> Num(1)) @@ ("b" :> Str("z"))) }

\* The values formatValue is applied to.
FormatValues ==
    Leaves
        \cup Wrap(Leaves)
        \cup { Arr(<< >>), Map(EmptyMap) }
        \cup { Arr(<< x, y >>) : x, y \in { Num(1), Str(Repeat("a", 97)), Str(Repeat("a", 98)) } }
        \cup { Map(("a" :> x) @@ ("b" :> y)) : x, y \in { Num(1), Str(Repeat("a", 92)), Str(Repeat("a", 93)) } }
        \cup Wrap(Wrap(DeepSeeds)) \cup Wrap(Wrap(Wrap(DeepSeeds)))
        \cup Wrap(Wrap(Wrap(Wrap(DeepSeeds))))

Rec(acts, b, a, r) ==
    [address |-> "null_resource.x", actions |-> acts, before |-> b, after |-> a, reason |-> r]

\* The action lists of rendered records: every dispatch case of
\* buildAttributeDiff, and lists it has no case for.
RenderActions ==
    { << "create" >>, << "delete" >>, << "update" >>, << "delete", "create" >>,
      << "create", "delete" >>, << "read" >>, << "no-op" >>, << "forget" >>,
      << >>, << "update", "delete" >> }

SmallKeys == { "a", "b" }

\* Every map from a subset of SmallKeys to the numbers 1 and 2, and some
\* maps of three keys (upper-case letters sort before lower-case ones).
SmallMaps ==
    UNION { { Map(m) : m \in [K -> { Num(1), Num(2) }] } : K \in SUBSET SmallKeys }
        \cup { Map(("b" :> Num(1)) @@ ("a" :> Num(2))),
               Map(("a" :> Num(2)) @@ ("c" :> Num(3))),
               Map(("b" :> Num(1)) @@ ("B" :> Num(1)) @@ ("ab" :> Num(1))),
               Map(("b" :> Num(2)) @@ ("c" :> Num(1)) @@ ("ab" :> Num(1))) }

NonMaps == { Null, Str("a"), Arr(<< Num(1) >>) }

Reasons == { "", "replace_by_request", "some_future_reason" }

\* The reason codes formatActionReason has a case for.
KnownReasons ==
    { "replace_because_tainted", "replace_because_cannot_update", "replace_by_request",
      "delete_because_no_resource_config", "delete_because_no_module",
      "delete_because_wrong_repetition", "delete_because_count_index",
      "delete_because_each_key", "read_because_config_unknown",
      "read_because_dependency_pending" }

\* Action reasons of every kind: none, each known code, the text each known
\* code is replaced by, and codes formatActionReason has no case for.
AllReasons ==
    Reasons \cup KnownReasons \cup { formatActionReason(r) : r \in KnownReasons }
        \cup { "replace_because_tainted ", "Replace_By_Request" }

ExampleBefore == Map(("count" :> Num(1)) @@ ("tags" :> Arr(<< Str("a") >>)))
ExampleAfter == Map(("count" :> Num(2)) @@ ("tags" :> Arr(<< Str("a"), Str("b") >>)))

\* Maps whose rendering is around maxDiffSize characters long: one long
\* key, and none, one or two short keys beside it.
BigMap(n, extra, v) ==
    Map((Repeat("k", n) :> v) @@ [k \in extra |-> v])

BigRecords ==
    { Rec(acts, BigMap(n, extra, Num(1)), BigMap(n, extra, v), "") :
        acts \in { << "create" >>, << "delete" >>, << "update" >>, << "delete", "create" >> },
        n \in (maxDiffSize - CapMargin)..maxDiffSize,
        extra \in { {}, { "a" } },
        v \in { Num(1), Num(2) } }

\* The records given to writeResourceChange.
Records ==
    { Rec(acts, b, a, "") : acts \in RenderActions, b, a \in SmallMaps \cup NonMaps }
        \cup { Rec(acts, b, a, r) :
                 acts \in RenderActions, b, a \in NonMaps \cup { Map("a" :> Num(1)) },
                 r \in Reasons }
        \cup { Rec(acts, Null, a, r) :
                 acts \in { << "create" >>, << "no-op" >> },
                 a \in { Null, Map("a" :> Num(1)) }, r \in AllReasons }
        \cup { Rec(<< "update" >>, ExampleBefore, ExampleAfter, ""),
               Rec(<< "create" >>, Null, Map("name" :> Str("x")), "") }
        \cup BigRecords

\* The action lists of the records of a batch.
BatchActions ==
    { << "create" >>, << "delete" >>, << "update" >>, << "delete", "create" >>,
      << "create", "delete" >>, << "read" >>, << "no-op" >>, << "forget" >> }

Batches ==
    UNION { [1..n -> { Rec(acts, Null, Null, "") : acts \in BatchActions }] : n \in 0..MaxBatch }

-----------------------------------------------------------------------------
(* State *)

VARIABLES
    pc,         \* the entry point to call ("classify", "format", "diff",
                \* "render", "count") or the one that has returned
                \* ("classified", "formatted", "diffed", "rendered", "counted")
    actions,    \* summarizeActions: its argument
    action,     \* summarizeActions: its result
    val,        \* formatValue: the value
    depth,      \* formatValue: the depth
    formatted,  \* formatValue: its result
    rc,         \* writeResourceChange: the record
    collected,  \* mergeKeys: keys before sortStrings, in the last render
    allKeys,    \* writeDiff: the keys it loops over, in the last render
    lines,      \* the lines written to buildAttributeDiff's builder
    body,       \* buildAttributeDiff: result before the cap
    diff,       \* buildAttributeDiff: its return value
    out,        \* writeResourceChange: the text appended to sb
    prevDiff,   \* the diff of the previous render of rc
    calls,      \* how many times rc was rendered
    changes,    \* countActions: the batch
    counts,     \* countActions: its five results
    cmp,        \* valuesEqual: the values compared
    eq,         \* valuesEqual: its results on the pairs of cmp
    batch,      \* the records of a plan rendered one after the other
    renders,    \* the renders of records of batch made so far, in order
    actual,     \* buildFormattedPlanResponse: actualChanges
    request,    \* a tool handler: its request and what the remote API answers
    result,     \* a tool handler: the CallToolResult it returns
    remote      \* the calls a handler has issued to the remote API

vars == << pc, actions, action, val, depth, formatted, rc, collected, allKeys,
           lines, body, diff, out, prevDiff, calls, changes, counts,
           cmp, eq, batch, renders, actual, request, result, remote >>

classifyVars == << actions, action >>
formatVars == << val, depth, formatted >>
renderVars == << rc, collected, allKeys, lines, body, diff, out, prevDiff, calls >>
countVars == << changes, counts >>
equalVars == << cmp, eq >>
shareVars == << batch, renders >>
handlerVars == << actual, request, result, remote >>

NoRecord == Rec(<< >>, Null, Null, "")

IdleClassify == actions = << >> /\ action = ""
IdleFormat == val = Null /\ depth = 0 /\ formatted = ""
IdleRender ==
    /\ rc = NoRecord
    /\ collected = << >> /\ allKeys = << >> /\ lines = << >>
    /\ body = "" /\ diff = "" /\ out = "" /\ prevDiff = "" /\ calls = 0
IdleCount == changes = << >> /\ counts = ZeroCounts
IdleEqual == cmp = << >> /\ eq = << >>
IdleShare == batch = << >> /\ renders = << >>
IdleHandler == actual = << >> /\ request = << >> /\ result = << >> /\ remote = << >>

-----------------------------------------------------------------------------
(* The action classifier applied to an action sequence *)

InitClassify ==
    /\ pc = "classify"
    /\ actions \in ActionSeqs
    /\ action = ""
    /\ IdleFormat /\ IdleRender /\ IdleCount
    /\ IdleEqual /\ IdleShare /\ IdleHandler

Classify ==
    /\ pc = "classify"
    /\ action' = summarizeActions(actions)
    /\ pc' = "classified"
    /\ UNCHANGED << actions, formatVars, renderVars, countVars,
                    equalVars, shareVars, handlerVars >>

NextClassify == Classify

SpecClassify == InitClassify /\ [][NextClassify]_vars

-----------------------------------------------------------------------------
(* The value formatter applied to a value at a depth *)

InitFormat ==
    /\ pc = "format"
    /\ val \in FormatValues
    /\ depth \in 0..MaxCallDepth
    /\ formatted = ""
    /\ IdleClassify /\ IdleRender /\ IdleCount
    /\ IdleEqual /\ IdleShare /\ IdleHandler

Format ==
    /\ pc = "format"
    /\ formatted' = formatValue(val, depth)
    /\ pc' = "formatted"
    /\ UNCHANGED << val, depth, classifyVars, renderVars, countVars,
                    equalVars, shareVars, handlerVars >>

NextFormat == Format

SpecFormat == InitFormat /\ [][NextFormat]_vars

-----------------------------------------------------------------------------
(* The tree differ applied to two maps at a depth *)

DiffMaps == SmallMaps \cup { ExampleBefore, ExampleAfter }

InitDiff ==
    /\ pc = "diff"
    /\ rc \in { Rec(<< "update" >>, b, a, "") : b, a \in DiffMaps }
    /\ depth \in 0..MaxDiffDepth
    /\ val = Null /\ formatted = ""
    /\ collected = << >> /\ allKeys = << >> /\ lines = << >>
    /\ body = "" /\ diff = "" /\ out = "" /\ prevDiff = "" /\ calls = 0
    /\ IdleClassify /\ IdleCount
    /\ IdleEqual /\ IdleShare /\ IdleHandler

\* One call writeDiff(sb, before, after, depth) on an empty builder.  The
\* ranges of mergeKeys yield the keys in the orders ob and oa.
WriteDiff ==
    /\ pc = "diff"
    /\ \E ob \in KeyOrders(rc.before), oa \in KeyOrders(rc.after) :
          /\ collected' = collectKeys(ob, oa)
          /\ allKeys' = mergeKeys(ob, oa)
          /\ lines' = writeDiff(rc.before.m, rc.after.m, depth, ob, oa)
          /\ body' = builderText(writeDiff(rc.before.m, rc.after.m, depth, ob, oa))
    /\ pc' = "diffed"
    /\ UNCHANGED << rc, depth, val, formatted, diff, out, prevDiff, calls,
                    classifyVars, countVars, equalVars, shareVars, handlerVars >>

NextDiff == WriteDiff

SpecDiff == InitDiff /\ [][NextDiff]_vars

-----------------------------------------------------------------------------
(* A record rendered by writeResourceChange, MaxCalls times *)

InitRender ==
    /\ pc = "render"
    /\ rc \in Records
    /\ collected = << >> /\ allKeys = << >> /\ lines = << >>
    /\ body = "" /\ diff = "" /\ out = "" /\ prevDiff = "" /\ calls = 0
    /\ IdleClassify /\ IdleFormat /\ IdleCount
    /\ IdleEqual /\ IdleShare /\ IdleHandler

\* One call writeResourceChange(sb, rc).  The ranges over rc's maps yield
\* their keys in the orders ob (before) and oa (after).
Render ==
    /\ pc \in { "render", "rendered" }
    /\ calls < MaxCalls
    /\ \E ob \in KeyOrders(rc.before), oa \in KeyOrders(rc.after) :
          LET act == summarizeActions(rc.actions)
              merging == act \in {"update", "replace (delete, create)",
                                  "replace (create, delete)"}
                             /\ IsMap(rc.before) /\ IsMap(rc.after)
          IN  /\ collected' = IF merging THEN collectKeys(ob, oa) ELSE << >>
              /\ allKeys' = IF merging THEN mergeKeys(ob, oa) ELSE << >>
              /\ lines' = dispatchDiff(rc.before, rc.after, act, ob, oa)
              /\ body' = builderText(dispatchDiff(rc.before, rc.after, act, ob, oa))
              /\ diff' = buildAttributeDiff(rc.before, rc.after, act, ob, oa)
              /\ out' = writeResourceChange(rc, ob, oa)
    /\ prevDiff' = diff
    /\ calls' = calls + 1
    /\ pc' = "rendered"
    /\ UNCHANGED << rc, classifyVars, formatVars, countVars,
                    equalVars, shareVars, handlerVars >>

NextRender == Render

SpecRender == InitRender /\ [][NextRender]_vars

-----------------------------------------------------------------------------
(* The summary tally applied to a batch of records *)

InitCount ==
    /\ pc = "count"
    /\ changes \in Batches
    /\ counts = ZeroCounts
    /\ IdleClassify /\ IdleFormat /\ IdleRender
    /\ IdleEqual /\ IdleShare /\ IdleHandler

Count ==
    /\ pc = "count"
    /\ counts' = countActions(changes)
    /\ pc' = "counted"
    /\ UNCHANGED << changes, classifyVars, formatVars, renderVars,
                    equalVars, shareVars, handlerVars >>

NextCount == Count

SpecCount == InitCount /\ [][NextCount]_vars

-----------------------------------------------------------------------------
(* The engine: the classifier, the formatter and the renderer *)

InitEngine == InitClassify \/ InitFormat \/ InitRender

NextEngine == Classify \/ Format \/ Render

SpecEngine == InitEngine /\ [][NextEngine]_vars

-----------------------------------------------------------------------------
(* valuesEqual applied to the pairs of three values *)

\* json.Marshal(v) when the encoder, on a map v, gets v's keys from the
\* runtime in the order o before it sorts them.
jsonMarshalRanged(v, o) ==
    IF IsMap(v)
    THEN LET ks == sortStrings(o)
         IN  "{" \o Join([i \in DOMAIN ks |->
                            jsonString(ks[i]) \o ":" \o jsonMarshal(v.m[ks[i]])], ",")
                 \o "}"
    ELSE jsonMarshal(v)

\* valuesEqual(a, b) when the two encoders get the keys in the orders oa, ob.
valuesEqualRanged(a, b, oa, ob) == jsonMarshalRanged(a, oa) = jsonMarshalRanged(b, ob)

\* Values of every JSON type, with pairs that differ in one respect only.
EqualValues ==
    { Null, Bool(TRUE), Num(1), Num(2), Str(""), Str("1"),
      Str(Repeat("a", maxValueLen) \o "x"), Str(Repeat("a", maxValueLen) \o "y"),
      Arr(<< >>), Arr(<< Num(1), Num(2) >>), Arr(<< Num(2), Num(1) >>),
      Map(EmptyMap),
      Map(("a" :> Num(1)) @@ ("b" :> Num(2))),
      Map(("a" :> Num(2)) @@ ("b" :> Num(1))),
      Map(("a" :> Arr(<< Num(1), Num(2) >>)) @@ ("B" :> Null)),
      Map(("a" :> Arr(<< Num(2), Num(1) >>)) @@ ("B" :> Null)) }

InitEqual ==
    /\ pc = "equal"
    /\ cmp \in [1..3 -> EqualValues]
    /\ eq = << >>
    /\ IdleClassify /\ IdleFormat /\ IdleRender /\ IdleCount
    /\ IdleShare /\ IdleHandler

\* valuesEqual(cmp[i], cmp[j]) for every i and j, and writeDiff's step on a
\* key whose value is cmp[1] in before and cmp[2] in after.  first[i] and
\* second[j] are the orders in which the two json.Marshal calls get the keys.
ValuesEqual ==
    /\ pc = "equal"
    /\ \E f1, s1 \in KeyOrders(cmp[1]), f2, s2 \in KeyOrders(cmp[2]),
          f3, s3 \in KeyOrders(cmp[3]) :
          LET first == << f1, f2, f3 >>
              second == << s1, s2, s3 >>
          IN  eq' = [i \in 1..3 |-> [j \in 1..3 |->
                        valuesEqualRanged(cmp[i], cmp[j], first[i], second[j])]]
    /\ lines' = diffKey("k" :> cmp[1], "k" :> cmp[2], "k", 0)
    /\ pc' = "compared"
    /\ UNCHANGED << cmp, rc, collected, allKeys, body, diff, out, prevDiff, calls,
                    classifyVars, formatVars, countVars, shareVars, handlerVars >>

NextEqual == ValuesEqual

SpecEqual == InitEqual /\ [][NextEqual]_vars

-----------------------------------------------------------------------------
(* The records of a plan rendered in any order, any number of times *)

\* Records of each dispatch case of buildAttributeDiff.
ShareRecords ==
    { Rec(<< "create" >>, Null, Map(("a" :> Num(2)) @@ ("c" :> Num(3))), ""),
      Rec(<< "create" >>, Null, Map("a" :> Num(1)), "replace_by_request"),
      Rec(<< "delete" >>, Map(("a" :> Num(1)) @@ ("b" :> Num(2))), Null, ""),
      Rec(<< "update" >>, ExampleBefore, ExampleAfter, ""),
      Rec(<< "delete", "create" >>, Map(("b" :> Num(1)) @@ ("a" :> Num(2))),
          Map(("a" :> Num(2)) @@ ("c" :> Num(3))), ""),
      Rec(<< "no-op" >>, Map("a" :> Num(1)), Map("a" :> Num(1)), "") }

InitShare ==
    /\ pc = "share"
    /\ batch \in [1..2 -> ShareRecords]
    /\ renders = << >>
    /\ IdleClassify /\ IdleFormat /\ IdleRender /\ IdleCount
    /\ IdleEqual /\ IdleHandler

\* One call writeResourceChange(sb, &batch[i]) on a builder of its own, for
\* any record i of the batch.  The ranges over the record's maps yield
\* their keys in the orders ob and oa.  The call reads the record and
\* writes to its builder only.
RenderOne ==
    /\ pc \in { "share", "shared" }
    /\ Len(renders) < MaxRenders
    /\ \E i \in DOMAIN batch :
          \E ob \in KeyOrders(batch[i].before), oa \in KeyOrders(batch[i].after) :
              renders' = Append(renders, [idx |-> i, rec |-> batch[i],
                                          text |-> writeResourceChange(batch[i], ob, oa)])
    /\ pc' = "shared"
    /\ UNCHANGED << batch, classifyVars, formatVars, renderVars, countVars,
                    equalVars, handlerVars >>

NextShare == RenderOne

SpecShare == InitShare /\ [][NextShare]_vars

-----------------------------------------------------------------------------
(* buildFormattedPlanResponse applied to a parsed plan *)

ExampleRun == [ID |-> "run-1", Status |-> "planned"]

\* What a parsed plan holds besides its resource changes: nothing, or a
\* version, the two flags, a drifted record and two outputs.
PlanExtras ==
    { [TerraformVersion |-> "", Applyable |-> FALSE, Errored |-> FALSE,
       ResourceDrift |-> << >>, OutputChanges |-> [n \in {} |-> << >>]],
      [TerraformVersion |-> "1.5.0", Applyable |-> TRUE, Errored |-> TRUE,
       ResourceDrift |-> << Rec(<< "update" >>, Map("a" :> Num(1)), Map("a" :> Num(2)), "") >>,
       OutputChanges |-> ("url" :> << "create" >>) @@ ("id" :> << "update" >>)] }

jsonPlan(extra, resourceChanges) ==
    [TerraformVersion |-> extra.TerraformVersion, Applyable |-> extra.Applyable,
     Errored |-> extra.Errored, ResourceChanges |-> resourceChanges,
     ResourceDrift |-> extra.ResourceDrift, OutputChanges |-> extra.OutputChanges]

InitSummary ==
    /\ pc = "summary"
    /\ request \in { [run |-> ExampleRun, plan |-> [ID |-> "plan-1", Status |-> "finished"],
                      parsed |-> jsonPlan(extra, ch)] :
                        extra \in PlanExtras, ch \in Batches }
    /\ actual = << >> /\ result = << >> /\ remote = << >>
    /\ counts = ZeroCounts /\ changes = << >>
    /\ IdleClassify /\ IdleFormat /\ IdleRender
    /\ IdleEqual /\ IdleShare

\* One call buildFormattedPlanResponse(run, plan, parsed), with its locals
\* adds..noops (counts) and actualChanges (actual).
BuildFormatted ==
    /\ pc = "summary"
    /\ LET parsed == request.parsed
           shown == actualChanges(parsed.ResourceChanges)
       IN  /\ counts' = countActions(parsed.ResourceChanges)
           /\ actual' = shown
           /\ \E db \in OrdersOf(parsed.ResourceDrift, "before"),
                 da \in OrdersOf(parsed.ResourceDrift, "after"),
                 cb \in OrdersOf(shown, "before"), ca \in OrdersOf(shown, "after"),
                 oo \in Orders(DOMAIN parsed.OutputChanges) :
                 result' = textResult("formatted",
                               buildFormattedPlanResponse(request.run, request.plan,
                                   parsed, [db |-> db, da |-> da, cb |-> cb,
                                            ca |-> ca, oo |-> oo]),
                               "")
    /\ pc' = "summarized"
    /\ UNCHANGED << request, remote, changes, classifyVars, formatVars, renderVars,
                    equalVars, shareVars >>

NextSummary == BuildFormatted

SpecSummary == InitSummary /\ [][NextSummary]_vars

-----------------------------------------------------------------------------
(* getPlanDetailsHandler applied to a request, with every answer of the API *)

PlanStatuses ==
    { "pending", "queued", "unreachable", "errored", "finished", "running", "canceled" }

\* Log contents: none, short ones with and without a final line feed, and
\* long ones around maxLogSize bytes.
LogContents ==
    { "", "Error: invalid\n", "Terraform v1.5.0" }
        \cup { "T" \o Repeat("x", n - 1) :
                 n \in (maxLogSize - LogMargin)..(maxLogSize + LogMargin) }

\* The answers to Plans.Logs and to the read of the stream it returns.
PlanLogs ==
    { [fetchErr |-> TRUE, readErr |-> FALSE, content |-> ""],
      [fetchErr |-> FALSE, readErr |-> TRUE, content |-> ""] }
        \cup { [fetchErr |-> FALSE, readErr |-> FALSE, content |-> c] : c \in LogContents }

\* The answers to Plans.ReadJSONOutput: an error, no bytes, bytes that are
\* not a JSON plan, and the bytes of some plans.
JSONOutputs ==
    { [kind |-> k, parsed |-> jsonPlan(CHOOSE e \in PlanExtras : e.TerraformVersion = "", << >>)] :
        k \in { "error", "empty", "garbage" } }
        \cup { [kind |-> "plan", parsed |-> jsonPlan(extra, ch)] :
                 extra \in PlanExtras,
                 ch \in { << >>, << Rec(<< "create" >>, Null, Map("a" :> Num(1)), ""),
                                    Rec(<< "read" >>, Null, Null, "") >> } }

PlanOf(status) ==
    [ID |-> "plan-1", Status |-> status, HasChanges |-> TRUE, ResourceAdditions |-> 1,
     ResourceChanges |-> 0, ResourceDestructions |-> 0, ResourceImports |-> 0]

InitPlan ==
    /\ pc = "plan"
    /\ request \in
          { [args |-> [hasRunID |-> has, runID |-> IF has THEN "run-1" ELSE ""],
             api |-> [clientErr |-> ce, runErr |-> re, hasPlan |-> hp, run |-> ExampleRun,
                      plan |-> PlanOf(st), json |-> js, logs |-> lg]] :
              has \in BOOLEAN, ce \in BOOLEAN, re \in BOOLEAN, hp \in BOOLEAN,
              st \in PlanStatuses, js \in JSONOutputs, lg \in PlanLogs }
    /\ actual = << >> /\ result = << >>
    /\ remote = [runs |-> 0, json |-> 0, logs |-> 0]
    /\ IdleClassify /\ IdleFormat /\ IdleRender /\ IdleCount
    /\ IdleEqual /\ IdleShare

\* One call of getPlanDetailsHandler.
GetPlanDetails ==
    /\ pc = "plan"
    /\ LET parsed == request.api.json.parsed
           shown == actualChanges(parsed.ResourceChanges)
       IN  \E db \in OrdersOf(parsed.ResourceDrift, "before"),
              da \in OrdersOf(parsed.ResourceDrift, "after"),
              cb \in OrdersOf(shown, "before"), ca \in OrdersOf(shown, "after"),
              oo \in Orders(DOMAIN parsed.OutputChanges) :
              LET ret == getPlanDetailsHandler(request.args, request.api,
                             [db |-> db, da |-> da, cb |-> cb, ca |-> ca, oo |-> oo])
              IN  /\ result' = ret.result
                  /\ remote' = ret.remote
    /\ pc' = "answered"
    /\ UNCHANGED << request, actual, classifyVars, formatVars, renderVars, countVars,
                    equalVars, shareVars >>

NextPlan == GetPlanDetails

SpecPlan == InitPlan /\ [][NextPlan]_vars

-----------------------------------------------------------------------------
(* createWorkspaceHandler applied to a request, with every answer of the API *)

\* A required parameter: absent from the request, or present with a value.
Absent == [present |-> FALSE, value |-> ""]
Given(v) == [present |-> TRUE, value |-> v]

\* Values of execution_mode: none, the three modes in several letter
\* cases, and values that are none of them.
ModeInputs == { "", "remote", "Local", "AGENT", "rEmOtE", "bogus", "remote " }

WorkspaceRequests ==
    { [org |-> o, name |-> n, executionMode |-> m, vcsRepoIdentifier |-> v,
       vcsRepoOAuthTokenID |-> t, vcsRepoBranch |-> IF v = "" THEN "" ELSE "main",
       autoApply |-> a, tags |-> g, description |-> "", terraformVersion |-> "",
       workingDirectory |-> "", projectID |-> ""] :
        o \in { Absent, Given("my-org"), Given(" my-org ") },
        n \in { Absent, Given("ws"), Given("") },
        m \in ModeInputs, v \in { "", "acme/infra" }, t \in { "", "ot-1" },
        a \in { "false", "TRUE" }, g \in { "", " a, b,," } }

InitWorkspace ==
    /\ pc = "workspace"
    /\ request \in WorkspaceRequests
    /\ actual = << >> /\ result = << >>
    /\ remote = [creates |-> 0, workspaces |-> {}]
    /\ IdleClassify /\ IdleFormat /\ IdleRender /\ IdleCount
    /\ IdleEqual /\ IdleShare

\* The handler up to its call of Workspaces.Create: the parameters, the
\* client (which can or cannot be obtained) and the VCS check.
PrepareCreate ==
    /\ pc = "workspace"
    /\ \E clientErr \in BOOLEAN :
          LET message ==
                  IF checkInputs(request) # "" THEN checkInputs(request)
                  ELSE IF clientErr
                       THEN "failed to get Terraform client - ensure TFE_TOKEN and TFE_ADDRESS are configured"
                  ELSE checkVcs(request)
          IN  IF message # ""
              THEN result' = errorResult(message) /\ pc' = "returned"
              ELSE result' = result /\ pc' = "creating"
    /\ UNCHANGED << request, actual, remote, classifyVars, formatVars, renderVars,
                    countVars, equalVars, shareVars >>

\* The call Workspaces.Create under its 30 second deadline and the
\* handler's reaction to its answer: the workspace was created; the call
\* failed; or the deadline passed, with the workspace created or not.
IssueCreate ==
    /\ pc = "creating"
    /\ \E answer \in { "created", "failed", "timeout", "timeout, created" } :
          LET org == trimSpace(request.org.value)
              options == workspaceCreateOptions(request)
          IN  /\ remote' = [creates |-> remote.creates + 1,
                            workspaces |->
                                IF answer \in { "created", "timeout, created" }
                                THEN remote.workspaces \cup { [org |-> org, options |-> options] }
                                ELSE remote.workspaces]
              /\ IF answer = "created"
                 THEN result' = result /\ pc' = "detailing"
                 ELSE /\ pc' = "returned"
                      /\ result' = errorResult(
                             IF answer = "failed"
                             THEN "failed to create workspace '" \o options.Name
                                      \o "' in org '" \o org \o "'"
                             ELSE "timed out creating workspace '" \o options.Name
                                      \o "' in org '" \o org
                                      \o "' (server may be retrying) - check VCS configuration and try again")
    /\ UNCHANGED << request, actual, classifyVars, formatVars, renderVars,
                    countVars, equalVars, shareVars >>

\* The call getWorkspaceDetailsForTools, which succeeds or fails, and the
\* handler's return.
WorkspaceDetails ==
    /\ pc = "detailing"
    /\ \E detailsErr \in BOOLEAN :
          result' = IF detailsErr THEN errorResult("failed to get workspace details")
                    ELSE textResult("workspace", "workspace details", "")
    /\ pc' = "returned"
    /\ UNCHANGED << request, actual, remote, classifyVars, formatVars, renderVars,
                    countVars, equalVars, shareVars >>

NextWorkspace == PrepareCreate \/ IssueCreate \/ WorkspaceDetails

SpecWorkspace == InitWorkspace /\ [][NextWorkspace]_vars

-----------------------------------------------------------------------------
(* All entry points together *)

Init ==
    \/ InitClassify \/ InitFormat \/ InitDiff \/ InitRender \/ InitCount
    \/ InitEqual \/ InitShare \/ InitSummary \/ InitPlan \/ InitWorkspace

Next ==
    \/ Classify \/ Format \/ WriteDiff \/ Render \/ Count
    \/ ValuesEqual \/ RenderOne \/ BuildFormatted \/ GetPlanDetails
    \/ PrepareCreate \/ IssueCreate \/ WorkspaceDetails

Spec == Init /\ [][Next]_vars

-----------------------------------------------------------------------------
(* Helpers of the properties *)

\* pat occurs in text.
Contains(text, pat) ==
    \E i \in 1..(Len(text) - Len(pat) + 1) : SubSeq(text, i, i + Len(pat) - 1) = pat

\* The keys of the two maps of the record.
UnionKeys == DOMAIN rc.before.m \cup DOMAIN rc.after.m

\* The lines written about key k.
LinesOf(k) == LET About(l) == l.key = k IN SelectSeq(lines, About)

UpdateLike == { "update", "replace (delete, create)", "replace (create, delete)" }

-----------------------------------------------------------------------------
(* Properties of the tree differ *)

\* C2: writeDiff visits each key of the union of the two key sets exactly
\* once, in strictly ascending bytewise order, whatever order the keys were
\* collected in; so its lines are in ascending key order.  For
\* before = {b:1, a:2} and after = {a:2, c:3} there is no line for a, then
\* the removed b, then the added c.
C2_SortedUnion ==
    pc = "diffed" =>
        /\ { allKeys[i] : i \in DOMAIN allKeys } = UnionKeys
        /\ Len(allKeys) = Cardinality(UnionKeys)
        /\ \A i, j \in DOMAIN allKeys : i < j => StringLess(allKeys[i], allKeys[j])
        /\ \A i, j \in DOMAIN lines : i < j => StringLess(lines[i].key, lines[j].key)
        /\ (/\ rc.before = Map(("b" :> Num(1)) @@ ("a" :> Num(2)))
            /\ rc.after = Map(("a" :> Num(2)) @@ ("c" :> Num(3))))
              => /\ allKeys = << "a", "b", "c" >>
                 /\ [i \in DOMAIN lines |-> << lines[i].sym, lines[i].key >>]
                        = << << "-", "b" >>, << "+", "c" >> >>

\* C2 witness: the example, with the keys collected in the order b, a, c.
C2_Witness ==
    /\ pc = "diffed"
    /\ rc.before = Map(("b" :> Num(1)) @@ ("a" :> Num(2)))
    /\ rc.after = Map(("a" :> Num(2)) @@ ("c" :> Num(3)))
    /\ collected = << "b", "a", "c" >>
    /\ Len(lines) = 2

\* C3: for every key k of the union, writeDiff at depth d writes exactly
\* one '+' line when k is in after only, exactly one '-' line when k is in
\* before only, exactly one '~' line when k is in both with unequal values,
\* and no line when the values are equal; the builder holds those lines and
\* nothing else.  A map diffed against itself writes nothing, and
\* {count:1, tags:[a]} -> {count:2, tags:[a,b]} writes the two '~' lines.
C3_LinePerKey ==
    pc = "diffed" =>
        LET b == rc.before.m
            a == rc.after.m
            ind == Repeat("  ", depth)
        IN  /\ \A k \in UnionKeys :
                 LinesOf(k) =
                     IF k \notin DOMAIN b
                     THEN << Line("+", k, "+ " \o ind \o k \o " = "
                                  \o formatValue(a[k], depth + 1) \o "\n") >>
                     ELSE IF k \notin DOMAIN a
                     THEN << Line("-", k, "- " \o ind \o k \o " = "
                                  \o formatValue(b[k], depth + 1) \o "\n") >>
                     ELSE IF b[k] # a[k]
                     THEN << Line("~", k, "~ " \o ind \o k \o " = "
                                  \o formatValue(b[k], depth + 1) \o " -> "
                                  \o formatValue(a[k], depth + 1) \o "\n") >>
                     ELSE << >>
            /\ \A i \in DOMAIN lines : lines[i].key \in UnionKeys
            /\ body = Join([i \in DOMAIN lines |-> lines[i].text], "")
            /\ rc.before = rc.after => body = ""
            /\ (rc.before = ExampleBefore /\ rc.after = ExampleAfter /\ depth = 0)
                  => body = "~ count = 1 -> 2\n~ tags = [\"a\"] -> [\"a\", \"b\"]\n"

\* C3 witness: a diff with an added, a removed and a changed key and an
\* unchanged one.
C3_Witness ==
    /\ pc = "diffed"
    /\ \E i, j, k \in DOMAIN lines :
          lines[i].sym = "+" /\ lines[j].sym = "-" /\ lines[k].sym = "~"
    /\ \E k \in UnionKeys : LinesOf(k) = << >>

-----------------------------------------------------------------------------
(* Properties of the renderer *)

\* C1: rendering is deterministic: two renders of the same record return
\* the same diff text, whatever order the maps are iterated in.
C1_Deterministic == (pc = "rendered" /\ calls >= 2) => diff = prevDiff

\* C4: a composed body of at most 4000 characters is returned unchanged; a
\* longer one is returned as its first 4000 characters followed by the
\* truncation marker; the returned text is never longer than 4000
\* characters plus the marker.
C4_GlobalCap ==
    pc = "rendered" =>
        /\ Len(body) <= 4000 => diff = body
        /\ Len(body) > 4000 =>
              diff = SubSeq(body, 1, 4000)
                         \o "\n... (diff truncated, too many changes to display)\n"
        /\ Len(diff) <= 4000 + 51

\* C4 witness: a body of several lines that is longer than the cap.
C4_Witness ==
    /\ pc = "rendered"
    /\ Len(body) > 4000
    /\ Len(lines) >= 2
    /\ Len(diff) = 4051

\* The tree differ's text for two maps at depth 0.
TreeDiffText(b, a) ==
    builderText(diffLoop(b.m, a.m, sortedKeys(DOMAIN b.m \cup DOMAIN a.m), 0))

\* C10: for update and both replace forms the body is the tree differ's
\* output at depth 0 when before and after are both maps and is empty
\* otherwise; for every action other than create, delete, update and the
\* replace forms the body is empty; and when the body is empty
\* writeResourceChange writes the header, the optional reason line and a
\* blank line, and no fenced block.
C10_Dispatch ==
    pc = "rendered" =>
        LET act == summarizeActions(rc.actions)
        IN  /\ act \in UpdateLike =>
                 body = IF IsMap(rc.before) /\ IsMap(rc.after)
                        THEN TreeDiffText(rc.before, rc.after)
                        ELSE ""
            /\ act \notin UpdateLike \cup { "create", "delete" } => body = ""
            /\ body = "" =>
                 /\ diff = ""
                 /\ out = "### " \o actionSymbol(act) \o " " \o rc.address
                              \o " (" \o act \o ")\n"
                              \o (IF rc.reason = "" THEN ""
                                  ELSE "  *Reason: " \o formatActionReason(rc.reason) \o "*\n")
                              \o "\n"
                 /\ ~Contains(out, Fence)

\* C10 witness: an update whose after is not a map, with a reason: only
\* the header and the reason line are written.
C10_Witness ==
    /\ pc = "rendered"
    /\ summarizeActions(rc.actions) = "update"
    /\ IsMap(rc.before) /\ ~IsMap(rc.after)
    /\ rc.reason # ""
    /\ body = ""
    /\ Contains(out, "Reason")

-----------------------------------------------------------------------------
(* Properties of the value formatter *)

\* s has no character that %q escapes.
Unescaped(s) == ~Contains(s, "\"") /\ ~Contains(s, "\\")

\* C5, as claimed: a string of at most 200 characters is rendered whole and
\* quoted, a longer one is cut, and the cut rendering is at most 204
\* characters long.
C5_Original ==
    (pc = "formatted" /\ val.t = "str") =>
        /\ Len(val.s) <= 200 => formatted = Quote(val.s)
        /\ Len(val.s) > 200 => Len(formatted) <= 204

\* C5, amended: a string of at most 200 characters is rendered whole and
\* quoted; a longer one is rendered as its first 200 characters, quoted,
\* followed by the 15-character marker "... (truncated)"; the cut rendering
\* is 217 characters long (200, two quotes, the marker) when none of the 200
\* characters needs escaping, and longer otherwise.
C5_Amended ==
    (pc = "formatted" /\ val.t = "str") =>
        /\ Len(val.s) <= 200 => formatted = "\"" \o quoteEscape(val.s) \o "\""
        /\ Len(val.s) > 200 =>
              /\ formatted = "\"" \o quoteEscape(SubSeq(val.s, 1, 200)) \o "\""
                                 \o "... (truncated)"
              /\ Len(formatted) >= 217
              /\ Unescaped(val.s) => Len(formatted) = 217

\* C5 witness: a string of 201 plain characters was formatted.
C5_Witness ==
    /\ pc = "formatted"
    /\ val.t = "str"
    /\ Len(val.s) = 201
    /\ Unescaped(val.s)
    /\ Len(formatted) = 217

NonEmptyMap(v) == v.t = "map" /\ DOMAIN v.m # {}

KeysText(v) == "{..." \o ToString(Cardinality(DOMAIN v.m)) \o " keys}"

\* The rendering of a non-empty object at depth d.
ObjectText(v, d) ==
    IF d > 2 THEN KeysText(v)
    ELSE IF Len(jsonMarshal(v)) <= 200 THEN jsonMarshal(v)
    ELSE KeysText(v)

\* The number of one-element arrays around a value, and the value inside.
RECURSIVE Layers(_)
Layers(v) == IF v.t = "arr" /\ Len(v.a) = 1 THEN 1 + Layers(v.a[1]) ELSE 0

RECURSIVE Core(_)
Core(v) == IF v.t = "arr" /\ Len(v.a) = 1 THEN Core(v.a[1]) ELSE v

\* Every occurrence of the string "z" in v, a value at depth d, lies in a
\* non-empty object that sits at a depth greater than 2.
RECURSIVE Hidden(_, _)
Hidden(v, d) ==
    CASE v.t = "str" -> v.s # "z"
      [] v.t = "arr" -> \A i \in DOMAIN v.a : Hidden(v.a[i], d + 1)
      [] v.t = "map" -> \/ (d > 2 /\ DOMAIN v.m # {})
                        \/ \A k \in DOMAIN v.m : Hidden(v.m[k], d + 1)
      [] OTHER -> TRUE

\* C6, as claimed: a non-empty object at depth > 2 is rendered as
\* '{...N keys}' whatever containers enclose it, so that nothing inside an
\* object 3 or more levels deep shows in the output; at depth <= 2 it is
\* rendered in full exactly when its serialization is at most 200
\* characters long.
C6_Original ==
    pc = "formatted" =>
        /\ NonEmptyMap(val) => formatted = ObjectText(val, depth)
        /\ Hidden(val, depth) => ~Contains(formatted, "z")

\* C6, amended: a non-empty object that formatValue reaches at depth > 2,
\* the depth being the depth of the call plus the number of arrays around
\* the object, is rendered as '{...N keys}'; one at depth <= 2 is rendered
\* as its whole JSON serialization, objects nested in it included at any
\* level, exactly when that serialization is at most 200 characters long,
\* and as '{...N keys}' otherwise.
C6_Amended ==
    pc = "formatted" =>
        LET n == Layers(val)
            core == Core(val)
            text == ObjectText(core, depth + n)
        IN  (/\ NonEmptyMap(core)
             /\ n = 0 \/ depth + n - 1 <= 2
             /\ Len(text) + 2 * (n - 1) <= 200)
                => formatted = Repeat("[", n) \o text \o Repeat("]", n)

\* C6 witness: an object inside arrays, reached at depth 3 and collapsed.
C6_Witness ==
    /\ pc = "formatted"
    /\ Layers(val) >= 1
    /\ NonEmptyMap(Core(val))
    /\ depth + Layers(val) = 3
    /\ Contains(formatted, "{...2 keys}")

-----------------------------------------------------------------------------
(* Properties of the action classifier *)

\* C7: [delete, create] maps to 'replace (delete, create)' and
\* [create, delete] to 'replace (create, delete)'; the two differ, and no
\* other sequence yields either string.
C7_ReplacePairs ==
    pc = "classified" =>
        /\ actions = << "delete", "create" >> <=> action = "replace (delete, create)"
        /\ actions = << "create", "delete" >> <=> action = "replace (create, delete)"
        /\ "replace (delete, create)" # "replace (create, delete)"

\* C7 witness: [delete, create] was classified.
C7_Witness ==
    /\ pc = "classified"
    /\ actions = << "delete", "create" >>
    /\ action = "replace (delete, create)"

\* The tags of a sequence, separated by a comma and a space.
RECURSIVE CommaList(_)
CommaList(seq) ==
    IF seq = << >> THEN ""
    ELSE IF Len(seq) = 1 THEN seq[1]
    ELSE seq[1] \o ", " \o CommaList(Tail(seq))

\* C8: every one-element sequence maps to its tag, known or not, and every
\* sequence that is neither one-element nor a replace pair maps to its tags
\* joined by ', ' in their order (the empty sequence to the empty string).
C8_Total ==
    pc = "classified" =>
        /\ Len(actions) = 1 => action = actions[1]
        /\ (/\ Len(actions) # 1
            /\ actions # << "delete", "create" >>
            /\ actions # << "create", "delete" >>)
              => action = CommaList(actions)
        /\ actions = << >> => action = ""
        /\ actions = << "delete", "update" >> => action = "delete, update"

\* C8 witness: a sequence of three tags, one of them unknown, was joined.
C8_Witness ==
    /\ pc = "classified"
    /\ actions = << "update", "forget", "create" >>
    /\ action = "update, forget, create"

-----------------------------------------------------------------------------
(* Properties of the summary tally *)

\* The number of records of the batch whose classified action is in S.
Classified(S) ==
    Cardinality({ i \in DOMAIN changes : summarizeActions(changes[i].actions) \in S })

\* C9, as claimed: the five counts are the numbers of records classified
\* create, update, delete, a replace form and no-op.
C9_Original ==
    pc = "counted" =>
        /\ counts.adds = Classified({ "create" })
        /\ counts.updates = Classified({ "update" })
        /\ counts.destroys = Classified({ "delete" })
        /\ counts.replaces
              = Classified({ "replace (delete, create)", "replace (create, delete)" })
        /\ counts.noops = Classified({ "no-op" })

\* C9, amended: the five counts are the numbers of records classified
\* create, update, delete, a replace form, and no-op or read: noops counts
\* the records classified 'no-op' and those classified 'read'.
C9_Amended ==
    pc = "counted" =>
        /\ counts.adds = Classified({ "create" })
        /\ counts.updates = Classified({ "update" })
        /\ counts.destroys = Classified({ "delete" })
        /\ counts.replaces
              = Classified({ "replace (delete, create)", "replace (create, delete)" })
        /\ counts.noops = Classified({ "no-op", "read" })

\* C9 witness: a batch with a read, a no-op and a replace was tallied.
C9_Witness ==
    /\ pc = "counted"
    /\ Classified({ "read" }) = 1
    /\ Classified({ "no-op" }) = 1
    /\ counts.noops = 2
    /\ counts.replaces = 1

-----------------------------------------------------------------------------
(* Create and delete as special cases of the tree differ *)

\* C11: for a create whose after is a map, the body buildAttributeDiff
\* composes is the tree differ's output at depth 0 for an empty before and
\* that after (one '+ key = value' line per key, in the same order); for a
\* delete whose before is a map it is the tree differ's output for that
\* before and an empty after (one '-' line per key, in the same order).
C11_CreateDeleteAsDiff ==
    pc = "rendered" =>
        LET act == summarizeActions(rc.actions)
        IN  /\ (act = "create" /\ IsMap(rc.after))
                  => body = TreeDiffText(Map(EmptyMap), rc.after)
            /\ (act = "delete" /\ IsMap(rc.before))
                  => body = TreeDiffText(rc.before, Map(EmptyMap))

-----------------------------------------------------------------------------
(* Properties of valuesEqual *)

\* C12: valuesEqual is reflexive, symmetric and transitive, and holds of
\* two values exactly when their json.Marshal serializations are identical,
\* whatever order the maps' keys reach the encoder in; two arrays with the
\* same elements in different orders are unequal; and writeDiff writes a '~'
\* line for a key of both maps exactly when valuesEqual is false of its two
\* values.
C12_Equivalence ==
    pc = "compared" =>
        /\ \A i \in 1..3 : eq[i][i]
        /\ \A i, j \in 1..3 : eq[i][j] = eq[j][i]
        /\ \A i, j, k \in 1..3 : (eq[i][j] /\ eq[j][k]) => eq[i][k]
        /\ \A i, j \in 1..3 : eq[i][j] <=> (jsonMarshal(cmp[i]) = jsonMarshal(cmp[j]))
        /\ \A i, j \in 1..3 :
              (/\ cmp[i].t = "arr" /\ cmp[j].t = "arr"
               /\ Len(cmp[i].a) = 2 /\ Len(cmp[j].a) = 2
               /\ cmp[i].a[1] = cmp[j].a[2] /\ cmp[i].a[2] = cmp[j].a[1]
               /\ cmp[i].a[1] # cmp[i].a[2])
                  => ~eq[i][j]
        /\ (\E n \in DOMAIN lines : lines[n].sym = "~") <=> ~eq[1][2]
        /\ Len(lines) <= 1

\* C12 witness: an array compared with the array of the same two elements
\* in the other order, whose '~' line was written, and a map of two keys
\* compared with itself.
C12_Witness ==
    /\ pc = "compared"
    /\ cmp[1].t = "arr" /\ cmp[2].t = "arr" /\ Len(cmp[1].a) = 2
    /\ cmp[1] # cmp[2] /\ ~eq[1][2]
    /\ Len(lines) = 1 /\ lines[1].sym = "~"
    /\ IsMap(cmp[3]) /\ Cardinality(DOMAIN cmp[3].m) = 2 /\ eq[3][3]

-----------------------------------------------------------------------------
(* Properties of the array case of formatValue *)

\* C13: an empty array is formatted '[]' at every depth; a non-empty array
\* at a depth greater than 2 is formatted '[...N items]' whatever its
\* elements; otherwise its elements are formatted at depth + 1 and joined
\* with ', ', and the result is '[...N items]' exactly when the joined text
\* is longer than 200 characters and the joined text in square brackets
\* otherwise; N is the number of elements of the array itself.
C13_ArrayCase ==
    (pc = "formatted" /\ val.t = "arr") =>
        LET n == Len(val.a)
            collapsed == "[..." \o ToString(n) \o " items]"
            joined == Join([i \in DOMAIN val.a |-> formatValue(val.a[i], depth + 1)], ", ")
        IN  /\ n = 0 => formatted = "[]"
            /\ (n > 0 /\ depth > 2) => formatted = collapsed
            /\ (n > 0 /\ depth <= 2 /\ Len(joined) > 200) => formatted = collapsed
            /\ (n > 0 /\ depth <= 2 /\ Len(joined) <= 200)
                  => formatted = "[" \o joined \o "]"
            /\ (val = Arr(<< Num(1), Num(1) >>) /\ depth <= 2)
                  => formatted = "[1, 1]"
            /\ (val = Arr(<< Str(Repeat("a", 97)), Str(Repeat("a", 97)) >>) /\ depth <= 2)
                  => Len(formatted) = 202
            /\ val = Arr(<< Str(Repeat("a", 97)), Str(Repeat("a", 98)) >>)
                  => formatted = "[...2 items]"
            /\ (val = Arr(<< Arr(<< Arr(<< Arr(<< Num(1) >>) >>) >>) >>) /\ depth = 0)
                  => formatted = "[[[[...1 items]]]]"

\* C13 witness: an array of two strings whose joined text is exactly 200
\* characters long, formatted whole.
C13_Witness ==
    /\ pc = "formatted"
    /\ val.t = "arr" /\ Len(val.a) = 2 /\ depth <= 2
    /\ val.a[1].t = "str" /\ val.a[2].t = "str"
    /\ Len(formatted) = 202

-----------------------------------------------------------------------------
(* Properties of the header of a rendered record *)

\* The symbol claimed for a list of action tags.
SymbolOf(acts) ==
    CASE acts = << "create" >> -> "+"
      [] acts = << "delete" >> -> "-"
      [] acts = << "update" >> -> "~"
      [] acts = << "delete", "create" >> -> "-/+"
      [] acts = << "create", "delete" >> -> "-/+"
      [] acts = << "read" >> -> "<="
      [] OTHER -> " "

\* C14: the header written for a record is '### S address (action)' where
\* action is the classified string and S is '+' for create, '-' for delete,
\* '~' for update, '-/+' for both replace forms, '<=' for read, and a
\* single space for every other list (no-op, the empty list, unknown tags,
\* fallbacks); S is the same for all lists with the same classified string.
C14_HeaderSymbol ==
    pc = "rendered" =>
        LET act == summarizeActions(rc.actions)
            header == "### " \o SymbolOf(rc.actions) \o " " \o rc.address
                          \o " (" \o act \o ")\n"
        IN  /\ Len(out) >= Len(header)
            /\ SubSeq(out, 1, Len(header)) = header
            /\ \A other \in RenderActions :
                  summarizeActions(other) = act => SymbolOf(other) = SymbolOf(rc.actions)

\* C14 witness: a read record was rendered, with '<=' in its header.
C14_Witness ==
    /\ pc = "rendered"
    /\ rc.actions = << "read" >>
    /\ SubSeq(out, 1, 7) = "### <= "

-----------------------------------------------------------------------------
(* Properties of the reason line *)

\* The sentence claimed for each known reason code.
ReasonSentence ==
    ("replace_because_tainted" :> "resource is tainted, so must be replaced")
    @@ ("replace_because_cannot_update" :> "provider requires replacement to apply changes")
    @@ ("replace_by_request" :> "replacement was requested")
    @@ ("delete_because_no_resource_config" :> "no resource configuration found")
    @@ ("delete_because_no_module" :> "module instance no longer declared")
    @@ ("delete_because_wrong_repetition" :> "instance key not compatible with repetition mode")
    @@ ("delete_because_count_index" :> "count index out of range")
    @@ ("delete_because_each_key" :> "for_each key not in current configuration")
    @@ ("read_because_config_unknown" :> "configuration values unknown until apply")
    @@ ("read_because_dependency_pending" :> "depends on resource with pending changes")

\* text begins with pat.
StartsWith(text, pat) == Len(text) >= Len(pat) /\ SubSeq(text, 1, Len(pat)) = pat

\* The text of out after the header line.
AfterHeader ==
    LET act == summarizeActions(rc.actions)
        header == "### " \o actionSymbol(act) \o " " \o rc.address \o " (" \o act \o ")\n"
    IN  SubSeq(out, Len(header) + 1, Len(out))

\* C15: the reason line '  *Reason: T*' is written after the header exactly
\* when the record's reason is not empty; T is the fixed sentence of the
\* reason when it is one of the ten known codes and the reason itself
\* otherwise; no sentence is a known code, so a reason that is already a
\* sentence is written unchanged (translating twice is translating once).
C15_ReasonLine ==
    pc = "rendered" =>
        LET text == IF rc.reason \in DOMAIN ReasonSentence
                    THEN ReasonSentence[rc.reason] ELSE rc.reason
            line == "  *Reason: " \o text \o "*\n"
            rest == AfterHeader
        IN  /\ rc.reason = "" => StartsWith(rest, "\n")
            /\ rc.reason # "" => StartsWith(rest, line \o "\n")
            /\ \A c \in DOMAIN ReasonSentence : ReasonSentence[c] \notin DOMAIN ReasonSentence
            /\ (\E c \in DOMAIN ReasonSentence : rc.reason = ReasonSentence[c])
                  => StartsWith(rest, "  *Reason: " \o rc.reason \o "*\n\n")

\* C15 witness: a record whose reason is the sentence of a known code was
\* rendered with a reason line.
C15_Witness ==
    /\ pc = "rendered"
    /\ rc.reason = "count index out of range"
    /\ StartsWith(AfterHeader, "  *Reason: count index out of range*")

-----------------------------------------------------------------------------
(* Totality of the engine *)

\* text ends with a line feed.
EndsLine(text) == Len(text) > 0 /\ SubSeq(text, Len(text), Len(text)) = "\n"

\* C16: on every list of action tags (unknown tags and unknown
\* combinations included) and every before and after of any JSON shape
\* (null, scalar, array, map, nested, oversized), summarizeActions,
\* formatValue, buildAttributeDiff and writeResourceChange return text,
\* never a failure: the classified string is empty for the empty list only;
\* the formatted value is a non-empty text that opens as a quoted string, a
\* number, null, true, false, an array or an object, at every call depth;
\* the diff is empty or made of whole lines; and the rendered record is a
\* header line followed by whole lines.
C16_Total ==
    /\ pc = "classified" => (Len(action) = 0 <=> actions = << >>)
    /\ pc = "formatted" =>
          /\ Len(formatted) > 0
          /\ \/ SubSeq(formatted, 1, 1) \in { "\"", "[", "{", "-" }
             \/ IndexIn(Digits, SubSeq(formatted, 1, 1)) > 0
             \/ formatted \in { "null", "true", "false" }
    /\ pc = "rendered" =>
          /\ diff = "" \/ EndsLine(diff)
          /\ StartsWith(out, "### ") /\ EndsLine(out)
          /\ \A i \in DOMAIN lines : EndsLine(lines[i].text)

\* C16 witness: a nest of containers was formatted at the deepest call
\* depth.
C16_Witness ==
    /\ pc = "formatted"
    /\ depth = MaxCallDepth
    /\ val.t = "arr" /\ Len(val.a) = 1 /\ val.a[1].t \in { "arr", "map" }
    /\ Len(formatted) > 0

-----------------------------------------------------------------------------
(* Independence of the renders of a plan's records *)

\* C17: rendering is read-only and record-independent: every render of a
\* record sees the record as it is in the plan, and all renders of one
\* record produce the same text, whichever renders of the other record
\* came before or between them.
C17_Independent ==
    pc = "shared" =>
        \A m, n \in DOMAIN renders :
            /\ renders[m].rec = batch[renders[m].idx]
            /\ renders[m].idx = renders[n].idx => renders[m].text = renders[n].text

-----------------------------------------------------------------------------
(* Properties of the plan summary *)

\* The classifications countActions has a counter for.
Counted ==
    { "create", "update", "delete", "replace (delete, create)",
      "replace (create, delete)", "no-op", "read" }

\* C18: the five counts add up to at most the number of records, and to
\* exactly that number when and only when every record is classified
\* create, update, delete, a replace form, no-op or read; the number N of
\* the heading 'Resource Changes (N)' is the number of records that are
\* neither no-op nor read, so N + noops is the number of records and N is
\* at least adds + updates + destroys + replaces; a record of any other
\* classification is listed in the section and counted nowhere.
C18_Accounting ==
    pc = "summarized" =>
        LET recs == request.parsed.ResourceChanges
            class(i) == summarizeActions(recs[i].actions)
            sum == counts.adds + counts.updates + counts.destroys + counts.replaces
            N == Len(actual)
            others == Cardinality({ i \in DOMAIN recs : class(i) \notin Counted })
        IN  /\ sum + counts.noops <= Len(recs)
            /\ (sum + counts.noops = Len(recs)) <=> others = 0
            /\ N + counts.noops = Len(recs)
            /\ N >= sum
            /\ N = sum + others
            /\ \A i \in DOMAIN recs :
                  class(i) \notin Counted => \E j \in DOMAIN actual : actual[j] = recs[i]
            /\ N > 0 <=> Contains(result.text, "\n## Resource Changes (" \o ToString(N) \o ")\n\n")
            /\ counts.noops > 0 <=>
                  Contains(result.text, "\n*(" \o ToString(counts.noops)
                                            \o " resources unchanged, not shown)*\n")
            /\ Contains(result.text, "\n## Summary: " \o ToString(counts.adds) \o " to add, "
                                         \o ToString(counts.updates) \o " to change, "
                                         \o ToString(counts.destroys) \o " to destroy")

\* C18 witness: a plan with a record of an unrecognised action, a read and
\* a create was summarised: two records listed, one counted as unchanged,
\* one counted as an addition.
C18_Witness ==
    /\ pc = "summarized"
    /\ Len(request.parsed.ResourceChanges) = 3
    /\ Len(actual) = 2 /\ counts.noops = 1 /\ counts.adds = 1
    /\ \E j \in DOMAIN actual : actual[j].actions = << "forget" >>
    /\ \E i \in 1..3 : request.parsed.ResourceChanges[i].actions = << "read" >>

-----------------------------------------------------------------------------
(* Properties of the plan-details handler *)

\* text ends with pat.
EndsWith(text, pat) ==
    Len(text) >= Len(pat) /\ SubSeq(text, Len(text) - Len(pat) + 1, Len(text)) = pat

\* C19: the handler returns an error result exactly when run_id is missing,
\* the client cannot be obtained, the run cannot be read, or the run has no
\* plan; otherwise a failed fetch of the JSON plan, an empty payload and an
\* unparseable payload each give the non-error metadata response, and the
\* formatted response is returned only for a payload that was fetched, is
\* not empty and parses; a metadata response for a pending, queued or
\* unreachable plan was built without requesting the plan's logs; and the
\* log text in a metadata response is the log itself when that is at most
\* 50000 bytes long and its last 50000 bytes otherwise.
C19_Fallback ==
    pc = "answered" =>
        LET args == request.args
            api == request.api
            ready == args.hasRunID /\ ~api.clientErr /\ ~api.runErr /\ api.hasPlan
            content == api.logs.content
        IN  /\ result.isError <=> ~ready
            /\ result.isError <=> result.kind = "error"
            /\ (ready /\ api.json.kind \in { "error", "empty", "garbage" })
                  => result.kind = "metadata"
            /\ result.kind = "formatted" <=> (ready /\ api.json.kind = "plan")
            /\ (result.kind = "metadata"
                  /\ api.plan.Status \in { "pending", "queued", "unreachable" })
                  => remote.logs = 0 /\ result.log = ""
            /\ result.kind # "metadata" => remote.logs = 0
            /\ remote.logs <= 1
            /\ Len(result.log) <= 50000
            /\ result.log # "" =>
                  /\ EndsWith(content, result.log)
                  /\ Len(content) <= 50000 => result.log = content
                  /\ Len(content) > 50000 => Len(result.log) = 50000
                  /\ EndsWith(result.text, "\n'''\n" \o result.log \o "\n'''\n")
                        \/ EndsWith(result.text, "\n'''\n" \o result.log \o "'''\n")

\* C19 witness: the JSON plan could not be parsed, the plan has finished,
\* and the metadata response holds the last 50000 bytes of a longer log.
C19_Witness ==
    /\ pc = "answered"
    /\ request.api.json.kind = "garbage"
    /\ result.kind = "metadata" /\ ~result.isError
    /\ Len(request.api.logs.content) > 50000
    /\ Len(result.log) = 50000
    /\ remote.logs = 1

-----------------------------------------------------------------------------
(* Properties of the create-workspace handler *)

\* The values of execution_mode that name a mode, in any letter case.
NamedModes == { "remote", "Local", "AGENT", "rEmOtE" }

\* The request is one the handler must refuse before it acts.
Refused ==
    \/ ~request.org.present
    \/ ~request.name.present
    \/ request.executionMode # "" /\ request.executionMode \notin NamedModes
    \/ request.vcsRepoIdentifier # "" /\ request.vcsRepoOAuthTokenID = ""

\* C20: when terraform_org_name or workspace_name is missing, or
\* execution_mode is a non-empty value other than remote, local or agent
\* in any letter case, or vcs_repo_identifier is given without
\* vcs_repo_oauth_token_id, the handler never issues the create call, no
\* workspace is created, and it returns an error result; and in every
\* request the create call is issued at most once.
C20_ValidateBeforeAct ==
    pc \in { "workspace", "creating", "detailing", "returned" } =>
        /\ remote.creates <= 1
        /\ Cardinality(remote.workspaces) <= remote.creates
        /\ Refused =>
              /\ pc \in { "workspace", "returned" }
              /\ remote.creates = 0
              /\ remote.workspaces = {}
              /\ pc = "returned" => result.isError
        /\ pc = "detailing" => remote.creates = 1
        /\ (pc = "returned" /\ ~result.isError) => remote.creates = 1

\* C20 witness: a request with a repository and no OAuth token, and valid
\* otherwise, was answered with an error.
C20_Witness ==
    /\ pc = "returned"
    /\ request.org.present /\ request.name.present
    /\ request.executionMode = "AGENT"
    /\ request.vcsRepoIdentifier # "" /\ request.vcsRepoOAuthTokenID = ""
    /\ result.isError
    /\ result.text = "vcs_repo_oauth_token_id is required when vcs_repo_identifier is provided"

=============================================================================
